---------------------------- MODULE Spec2Model ----------------------------
(***************************************************************************)
(* SerenityCareAI Telegram bot: the text helpers (lib/utils.js), the       *)
(* keyword checks (lib/llm.js), the storage layer (lib/supabase.js), the   *)
(* callbacks registered by createTelegramBot (routes/telegram.js) and the  *)
(* HTTP read endpoints (server.js).                                        *)
(*                                                                         *)
(* A text is a sequence of one-character strings, so that substring tests, *)
(* split, trim and the sanitizer's replacements are computed character by  *)
(* character as the JavaScript does.                                       *)
(*                                                                         *)
(* Specifications:                                                         *)
(*   PureSpec    the pure text functions applied to texts of a bounded set *)
(*   Spec        one inbound event (a Telegram update or an HTTP request)  *)
(*               taken through the registered callbacks in Telegraf's      *)
(*               order, each callback on the context the one before it     *)
(*               left                                                      *)
(*   SessionSpec several updates in a row through the consent callbacks    *)
(*   BotSpec     the callbacks as createTelegramBot composes them: every   *)
(*               one wrapped by safeHandler, which calls handler(ctx)      *)
(*               and hands it no `next`                                    *)
(*   MediaSpec   llmAnalyzeMedia on every content type and outcome         *)
(*   StorageSpec the read functions behind the administrator commands, on  *)
(*               tables that hold rows already                             *)
(*   DueTodaySpec GET /api/appointments/due-today on a table of pending    *)
(*               appointments                                              *)
(*   StartupSpec the start of a process under every combination of the     *)
(*               required variables                                        *)
(***************************************************************************)
EXTENDS Naturals, Sequences, FiniteSets

VARIABLES
    env,           \* configuration read at start-up (config/env.js)
    patients,      \* table patients: telegram_user_id -> row or NoRecord
    appointments,  \* table appointments, in insertion order
    chat_logs,     \* table chat_logs, in insertion order
    ctx,           \* the Telegraf context of the update being handled
    replies,       \* ctx.reply attempts made for this update, in order
    calls,         \* storage and AI calls made for this event, in order
    http,          \* the HTTP exchange being served
    arg,           \* PureSpec: the text a pure function is applied to
    ret            \* PureSpec: what the functions returned

vars == <<env, patients, appointments, chat_logs, ctx, replies, calls, http, arg, ret>>

\* null / undefined of a record-valued expression
NoRecord == [none |-> TRUE]

Min(a, b) == IF a < b THEN a ELSE b

(***************************************************************************)
(* Characters and JavaScript string primitives                             *)
(***************************************************************************)
Chars(s) == [i \in 1..Len(s) |-> SubSeq(s, i, i)]

UpperCase == Chars("ABCDEFGHIJKLMNOPQRSTUVWXYZ")
LowerCase == Chars("abcdefghijklmnopqrstuvwxyz")
Letters == {UpperCase[i] : i \in 1..Len(UpperCase)} \cup {LowerCase[i] : i \in 1..Len(LowerCase)}
Digits == {"0", "1", "2", "3", "4", "5", "6", "7", "8", "9"}
\* \s of a JavaScript regular expression and the characters String.trim removes
WhiteSpace == {" ", "\t", "\n", "\r"}
\* \w of a JavaScript regular expression
WordChars == Letters \cup Digits \cup {"_"}
\* what "." of a regular expression does not match
LineTerminators == {"\n", "\r"}

\* String.prototype.toLowerCase, one character
UpperSet == {UpperCase[i] : i \in 1..Len(UpperCase)}
LowerOf == [c \in UpperSet |-> LowerCase[CHOOSE i \in 1..Len(UpperCase) : UpperCase[i] = c]]
LowerChar(c) == IF c \in UpperSet THEN LowerOf[c] ELSE c

toLowerCase(s) == [i \in 1..Len(s) |-> LowerChar(s[i])]

\* String.prototype.includes
includes(s, sub) ==
    \E i \in 0..Len(s) : i + Len(sub) <= Len(s) /\ SubSeq(s, i + 1, i + Len(sub)) = sub

\* String.prototype.trim
RECURSIVE trimStart(_)
trimStart(s) ==
    IF s # <<>> /\ Head(s) \in WhiteSpace THEN trimStart(Tail(s)) ELSE s

RECURSIVE trimEnd(_)
trimEnd(s) ==
    IF s # <<>> /\ s[Len(s)] \in WhiteSpace THEN trimEnd(SubSeq(s, 1, Len(s) - 1)) ELSE s

trim(s) == trimEnd(trimStart(s))

\* String.prototype.split(sep) for a one-character separator
RECURSIVE split(_, _)
split(s, sep) ==
    LET at == {i \in 1..Len(s) : s[i] = sep}
    IN  IF at = {} THEN <<s>>
        ELSE LET i == CHOOSE k \in at : \A j \in at : k <= j
             IN  <<SubSeq(s, 1, i - 1)>> \o split(SubSeq(s, i + 1, Len(s)), sep)

\* String.prototype.substring(0, n)
substring0(s, n) == SubSeq(s, 1, Min(Len(s), n))

\* Array.prototype.join("\n") of lines of text
RECURSIVE joinLines(_)
joinLines(lines) ==
    IF lines = <<>> THEN <<>>
    ELSE IF Len(lines) = 1 THEN lines[1]
    ELSE lines[1] \o <<"\n">> \o joinLines(Tail(lines))

(***************************************************************************)
(* lib/utils.js: sanitizeText                                              *)
(***************************************************************************)
MaxTextLength == 2000

\* .replace(/[<>]/g, '')
removeAngleBrackets(s) == SelectSeq(s, LAMBDA c : c \notin {"<", ">"})

\* .replace(/javascript:/gi, '')
JavascriptScheme == Chars("javascript:")
RECURSIVE removeJavascript(_)
removeJavascript(s) ==
    IF s = <<>> THEN <<>>
    ELSE IF Len(s) >= Len(JavascriptScheme)
            /\ toLowerCase(SubSeq(s, 1, Len(JavascriptScheme))) = JavascriptScheme
         THEN removeJavascript(SubSeq(s, Len(JavascriptScheme) + 1, Len(s)))
         ELSE <<Head(s)>> \o removeJavascript(Tail(s))

\* the length of the longest prefix of s made of \w characters
RECURSIVE wordRun(_)
wordRun(s) ==
    IF s # <<>> /\ Head(s) \in WordChars THEN 1 + wordRun(Tail(s)) ELSE 0

\* .replace(/on\w+=/gi, ''): "=" is no \w, so a match at a position is "on", the
\* whole run of \w that follows (at least one) and the "=" right after it
RECURSIVE removeEventHandlers(_)
removeEventHandlers(s) ==
    IF s = <<>> THEN <<>>
    ELSE LET k == IF Len(s) >= 2 /\ LowerChar(s[1]) = "o" /\ LowerChar(s[2]) = "n"
                  THEN wordRun(SubSeq(s, 3, Len(s))) ELSE 0
         IN  IF k >= 1 /\ Len(s) >= k + 3 /\ s[k + 3] = "="
             THEN removeEventHandlers(SubSeq(s, k + 4, Len(s)))
             ELSE <<Head(s)>> \o removeEventHandlers(Tail(s))

sanitizeText(text) ==
    IF text = <<>> THEN <<>>
    ELSE substring0(trim(removeEventHandlers(removeJavascript(removeAngleBrackets(text)))),
                    MaxTextLength)

(***************************************************************************)
(* lib/utils.js: booking detection and parsing                             *)
(***************************************************************************)
bookingKeywords == <<Chars("book"), Chars("appointment"), Chars("schedule"), Chars("visit")>>

\* /^[a-zA-Z\s]+,\s*[a-zA-Z0-9\s:]+$/ : \s* is inside the class that follows it
nameTimePattern(text) ==
    \E i \in 2..Len(text) :
        /\ text[i] = ","
        /\ \A j \in 1..(i - 1) : text[j] \in Letters \cup WhiteSpace
        /\ i < Len(text)
        /\ \A j \in (i + 1)..Len(text) : text[j] \in Letters \cup Digits \cup WhiteSpace \cup {":"}

looksLikeBooking_PatternOnly(text) ==
    IF text = <<>> THEN FALSE
    ELSE nameTimePattern(text)

looksLikeBooking(text) ==
    IF text = <<>> THEN FALSE
    ELSE LET hasComma == includes(text, <<",">>)
             lowerText == toLowerCase(text)
             hasBookingKeyword ==
                 \E k \in 1..Len(bookingKeywords) : includes(lowerText, bookingKeywords[k])
         IN  hasComma \/ hasBookingKeyword \/ nameTimePattern(text)

Invalid == [valid |-> FALSE]

validateBookingFormat_MinTwo(text) ==
    IF text = <<>> THEN Invalid
    ELSE LET parts == split(text, ",")
         IN  IF Len(parts) >= 2
             THEN LET name == trim(parts[1])
                      timeSlot == trim(parts[2])
                  IN  IF Len(name) >= 2 /\ Len(timeSlot) >= 2
                      THEN [valid |-> TRUE, name |-> name, timeSlot |-> timeSlot]
                      ELSE Invalid
             ELSE Invalid

validateBookingFormat(text) ==
    IF text = <<>> THEN Invalid
    ELSE LET parts == split(text, ",")
         IN  IF Len(parts) >= 2
             THEN LET name == trim(parts[1])
                      timeSlot == trim(parts[2])
                  IN  IF Len(name) > 2 /\ Len(timeSlot) > 2
                      THEN [valid |-> TRUE, name |-> name, timeSlot |-> timeSlot]
                      ELSE Invalid
             ELSE Invalid

healthKeywords ==
    <<Chars("pain"), Chars("sick"), Chars("help"), Chars("emergency"), Chars("urgent"),
      Chars("depression"), Chars("anxiety"), Chars("mental"), Chars("stress"),
      Chars("hurt"), Chars("feel"), Chars("doctor"), Chars("medicine"), Chars("treatment")>>

hasHealthKeywords(text) ==
    IF text = <<>> THEN FALSE
    ELSE LET lowerText == toLowerCase(text)
         IN  \E k \in 1..Len(healthKeywords) : includes(lowerText, healthKeywords[k])

(***************************************************************************)
(* lib/llm.js: emergency keywords                                          *)
(***************************************************************************)
emergencyKeywords ==
    <<Chars("emergency"), Chars("urgent"), Chars("help"), Chars("dying"), Chars("suicide"),
      Chars("kill myself"), Chars("overdose"), Chars("chest pain"), Chars("can't breathe"),
      Chars("bleeding"), Chars("unconscious")>>

containsEmergencyKeywords(text) ==
    LET lowerText == toLowerCase(text)
    IN  \E k \in 1..Len(emergencyKeywords) : includes(lowerText, emergencyKeywords[k])

(***************************************************************************)
(* config/env.js                                                           *)
(***************************************************************************)
\* Telegram user ids of the model; a private chat has its user's id
Users == {1, 2}
\* ctx.from is undefined (a channel post)
NoUser == 0
GroupChat == 7
\* MD_TELEGRAM_USER_ID unset: null, which `&&` and `!` treat like 0 and NaN
NoAdmin == 0
OWNER_NAME == Chars("Dr. Kunle Adesina")

\* the configurations a process can start with: admin id, storage credentials, AI key
Envs ==
    [MD_TELEGRAM_USER_ID : {NoAdmin} \cup Users, supabase : BOOLEAN, gemini : BOOLEAN]

isAuthorizedMD_AnyConfigured(userId) ==
    env.MD_TELEGRAM_USER_ID # NoAdmin

isAuthorizedMD(userId) ==
    env.MD_TELEGRAM_USER_ID # NoAdmin /\ userId = env.MD_TELEGRAM_USER_ID

\* new RegExp(env.OWNER_NAME, "i").test(text): the name is used as a pattern, so
\* its "." matches any character but a line terminator
ownerRegexTest(text) ==
    \E i \in 0..Len(text) :
        /\ i + Len(OWNER_NAME) <= Len(text)
        /\ \A j \in 1..Len(OWNER_NAME) :
               IF OWNER_NAME[j] = "." THEN text[i + j] \notin LineTerminators
               ELSE LowerChar(text[i + j]) = LowerChar(OWNER_NAME[j])

(***************************************************************************)
(* The replies: lib/utils.js, lib/llm.js and the literals of telegram.js   *)
(***************************************************************************)
\* a fixed message is named by the function or literal that produces it
Fixed(name) == [name |-> name, text |-> <<>>]

getBookingReply_NameOnly(text) ==
    [name |-> "getBookingReply",
     text |-> joinLines(<<
        <<"U+2705">> \o Chars(" Booking request received!"),
        <<>>,
        Chars("Request: \"") \o validateBookingFormat(text).name \o Chars("\""),
        <<>>,
        Chars("A staff member will contact you shortly to confirm your appointment."),
        Chars("Please ensure your phone number is available for confirmation.")>>)]

getBookingReply(text) ==
    [name |-> "getBookingReply",
     text |-> joinLines(<<
        <<"U+2705">> \o Chars(" Booking request received!"),
        <<>>,
        Chars("Request: \"") \o text \o Chars("\""),
        <<>>,
        Chars("A staff member will contact you shortly to confirm your appointment."),
        Chars("Please ensure your phone number is available for confirmation.")>>)]

\* ctx.reply: the attempt is recorded; the first `fails` attempts of an update throw
reply(st, msg, fails) ==
    LET ok == Len(st.replies) >= fails
    IN  [st EXCEPT !.replies = Append(@, [msg |-> msg, by |-> "handler", ok |-> ok]),
                   !.threw = ~ok]

(***************************************************************************)
(* What a callback has done so far: the reply attempts, the collaborator   *)
(* calls, the tables as it leaves them, whether an exception is            *)
(* propagating, and the value the last call returned                       *)
(***************************************************************************)
Begin ==
    [replies |-> replies, calls |-> calls, threw |-> FALSE, branch |-> "", data |-> NoRecord,
     patients |-> patients, appointments |-> appointments, chat_logs |-> chat_logs]

called(st, fn, args) == [st EXCEPT !.calls = Append(@, [fn |-> fn, args |-> args])]

\* how a request to the storage service ends: a result, {error}, or an exception
StorageOutcomes == {"ok", "error", "throw"}

\* decimal rendering of a number below 100, as a template literal does
numStr(n) ==
    LET d == Chars("0123456789")
    IN  IF n < 10 THEN <<d[n + 1]>> ELSE <<d[(n \div 10) + 1], d[(n % 10) + 1]>>

(***************************************************************************)
(* lib/supabase.js                                                         *)
(***************************************************************************)
\* the id column of patients, a key of its own beside telegram_user_id
PatientId(telegramId) == <<"patient", numStr(telegramId)>>

\* upsert(..., {onConflict: 'external_id', ignoreDuplicates: false}) writes every
\* column of patientData over an existing row, consent_opt_in: true among them
upsertPatientByTelegramId(st, telegramId, o) ==
    LET s1 == called(st, "upsertPatientByTelegramId", [telegram_user_id |-> telegramId])
        row == [id |-> PatientId(telegramId), telegram_user_id |-> telegramId,
                consent_opt_in |-> TRUE]
    IN  IF ~env.supabase THEN [s1 EXCEPT !.data = NoRecord]
        ELSE IF o = "ok" THEN [s1 EXCEPT !.patients[telegramId] = row, !.data = row]
             ELSE [s1 EXCEPT !.data = NoRecord]

\* update(...).eq('telegram_user_id', id).select().single(): no row is an error
updatePatientConsent(st, telegramId, consentOptIn, o) ==
    LET s1 == called(st, "updatePatientConsent",
                     [telegram_user_id |-> telegramId, consent_opt_in |-> consentOptIn])
    IN  IF ~env.supabase THEN [s1 EXCEPT !.data = NoRecord]
        ELSE IF o = "ok" /\ s1.patients[telegramId] # NoRecord
             THEN LET row == [s1.patients[telegramId] EXCEPT !.consent_opt_in = consentOptIn]
                  IN  [s1 EXCEPT !.patients[telegramId] = row, !.data = row]
             ELSE [s1 EXCEPT !.data = NoRecord]

logChat(st, chatData, o) ==
    LET s1 == called(st, "logChat", chatData)
        logEntry == [patient_id |-> chatData.patient_id,
                     telegram_user_id |-> chatData.telegram_user_id,
                     telegram_chat_id |-> chatData.telegram_chat_id,
                     message_type |-> chatData.message_type,
                     message_text |-> chatData.message_text]
    IN  IF ~env.supabase THEN [s1 EXCEPT !.data = NoRecord]
        ELSE IF o = "ok" THEN [s1 EXCEPT !.chat_logs = Append(@, logEntry), !.data = logEntry]
             ELSE [s1 EXCEPT !.data = NoRecord]

createAppointment_NoCatch(st, appointmentData, o) ==
    LET s1 == called(st, "createAppointment", appointmentData)
        appointment == [patient_id |-> appointmentData.patient_id,
                        full_name |-> appointmentData.full_name,
                        preferred_datetime |-> appointmentData.preferred_datetime,
                        status |-> "pending",
                        telegram_user_id |-> appointmentData.telegram_user_id,
                        telegram_chat_id |-> appointmentData.telegram_chat_id,
                        raw_request |-> appointmentData.raw_request]
    IN  IF ~env.supabase THEN [s1 EXCEPT !.data = NoRecord]
        ELSE IF o = "ok"
             THEN [s1 EXCEPT !.appointments = Append(@, appointment), !.data = appointment]
             ELSE [s1 EXCEPT !.data = NoRecord, !.threw = (o = "throw")]

createAppointment_Retry(st, appointmentData, o) ==
    LET s1 == called(st, "createAppointment", appointmentData)
        appointment == [patient_id |-> appointmentData.patient_id,
                        full_name |-> appointmentData.full_name,
                        preferred_datetime |-> appointmentData.preferred_datetime,
                        status |-> "pending",
                        telegram_user_id |-> appointmentData.telegram_user_id,
                        telegram_chat_id |-> appointmentData.telegram_chat_id,
                        raw_request |-> appointmentData.raw_request]
        s2 == IF o = "ok" THEN s1 ELSE called(s1, "createAppointment", appointmentData)
    IN  IF ~env.supabase THEN [s1 EXCEPT !.data = NoRecord]
        ELSE [s2 EXCEPT !.appointments = Append(@, appointment), !.data = appointment]

\* both the {error} of the insert and an exception end in `return null`
createAppointment(st, appointmentData, o) ==
    LET s1 == called(st, "createAppointment", appointmentData)
        appointment == [patient_id |-> appointmentData.patient_id,
                        full_name |-> appointmentData.full_name,
                        preferred_datetime |-> appointmentData.preferred_datetime,
                        status |-> "pending",
                        telegram_user_id |-> appointmentData.telegram_user_id,
                        telegram_chat_id |-> appointmentData.telegram_chat_id,
                        raw_request |-> appointmentData.raw_request]
    IN  IF ~env.supabase THEN [s1 EXCEPT !.data = NoRecord]
        ELSE IF o = "ok"
             THEN [s1 EXCEPT !.appointments = Append(@, appointment), !.data = appointment]
             ELSE [s1 EXCEPT !.data = NoRecord]

RECURSIVE Reverse(_)
Reverse(rows) == IF rows = <<>> THEN <<>> ELSE Append(Reverse(Tail(rows)), Head(rows))

\* the number of rows of a table that satisfy a filter
Count(rows, Keep(_)) == Len(SelectSeq(rows, Keep))

getDailyBrief_Propagates(st, qo) ==
    LET s1 == called(st, "getDailyBrief", NoRecord)
        zero == [chats |-> 0, bookings |-> 0, cancels |-> 0, faqs |-> 0]
    IN  IF ~env.supabase THEN [s1 EXCEPT !.data = zero]
        ELSE IF \E i \in 1..4 : qo[i] # "ok" THEN [s1 EXCEPT !.threw = TRUE]
        ELSE [s1 EXCEPT !.data =
                 [chats |-> Len(s1.chat_logs),
                  bookings |-> Count(s1.appointments, LAMBDA a : a.status = "pending"),
                  cancels |-> Count(s1.appointments, LAMBDA a : a.status = "cancelled"),
                  faqs |-> Count(s1.chat_logs,
                             LAMBDA l : includes(toLowerCase(l.message_text), Chars("faq")))]]

\* four count queries, one outcome each; the rows of the model are all of today.
\* An {error} leaves data null and the count 0; an exception ends in the zero record.
getDailyBrief(st, qo) ==
    LET s1 == called(st, "getDailyBrief", NoRecord)
        zero == [chats |-> 0, bookings |-> 0, cancels |-> 0, faqs |-> 0]
        n(i, k) == IF qo[i] = "ok" THEN k ELSE 0
    IN  IF ~env.supabase THEN [s1 EXCEPT !.data = zero]
        ELSE IF \E i \in 1..4 : qo[i] = "throw" THEN [s1 EXCEPT !.data = zero]
        ELSE [s1 EXCEPT !.data =
                 [chats |-> n(1, Len(s1.chat_logs)),
                  bookings |-> n(2, Count(s1.appointments, LAMBDA a : a.status = "pending")),
                  cancels |-> n(3, Count(s1.appointments, LAMBDA a : a.status = "cancelled")),
                  faqs |-> n(4, Count(s1.chat_logs,
                             LAMBDA l : includes(toLowerCase(l.message_text), Chars("faq"))))]]

\* `limit = 20` in the parameter list
DefaultLimit == 20

getFollowupAppointments_Descending(st, limit, o) ==
    LET s1 == called(st, "getFollowupAppointments", [limit |-> limit])
        rows == Reverse(SelectSeq(s1.appointments,
                                  LAMBDA a : a.status \in {"pending", "rescheduled"}))
    IN  IF ~env.supabase THEN [s1 EXCEPT !.data = <<>>]
        ELSE IF o = "ok" THEN [s1 EXCEPT !.data = SubSeq(rows, 1, Min(Len(rows), limit))]
             ELSE [s1 EXCEPT !.data = <<>>]

\* .in('status', ['pending', 'rescheduled']).order('created_at', {ascending: true})
\* .limit(limit): the table is kept in creation order
getFollowupAppointments(st, limit, o) ==
    LET s1 == called(st, "getFollowupAppointments", [limit |-> limit])
        rows == SelectSeq(s1.appointments, LAMBDA a : a.status \in {"pending", "rescheduled"})
    IN  IF ~env.supabase THEN [s1 EXCEPT !.data = <<>>]
        ELSE IF o = "ok" THEN [s1 EXCEPT !.data = SubSeq(rows, 1, Min(Len(rows), limit))]
             ELSE [s1 EXCEPT !.data = <<>>]

\* the default of getAppointmentsByStatus's limit
StatusLimit == 20

\* .eq('status', status).order('created_at', {ascending: false}).limit(limit): the
\* newest rows first; no client, an {error} and an exception all give []
getAppointmentsByStatus(st, status, limit, o) ==
    LET s1 == called(st, "getAppointmentsByStatus", [status |-> status, limit |-> limit])
        rows == Reverse(SelectSeq(s1.appointments, LAMBDA a : a.status = status))
    IN  IF ~env.supabase THEN [s1 EXCEPT !.data = <<>>]
        ELSE IF o = "ok" THEN [s1 EXCEPT !.data = SubSeq(rows, 1, Min(Len(rows), limit))]
             ELSE [s1 EXCEPT !.data = <<>>]

(***************************************************************************)
(* lib/llm.js: llmTextReply                                                *)
(***************************************************************************)
\* what generateContent gives back: a text, a text over 400 characters, an empty
\* text, or an exception
AiOutcomes == {"text", "long", "empty", "throw"}
AiText == Chars("Please type 1 to book an appointment.")
AiLongText == [i \in 1..401 |-> "x"]

llmTextReply(st, userText, ao) ==
    LET s1 == called(st, "llmTextReply", [userText |-> userText])
        raw == CASE ao = "text" -> AiText [] ao = "long" -> AiLongText [] OTHER -> <<>>
        text == IF Len(raw) > 400 THEN SubSeq(raw, 1, 397) \o Chars("...") ELSE raw
    IN  IF ~env.gemini THEN [s1 EXCEPT !.data = Fixed("llmTextReply:unable")]
        ELSE LET s2 == called(s1, "generateContent", [userText |-> userText])
             IN  IF ao = "throw" THEN [s2 EXCEPT !.data = Fixed("llmTextReply:trouble")]
                 ELSE IF text = <<>> THEN [s2 EXCEPT !.data = Fixed("llmTextReply:staffWillAssist")]
                 ELSE [s2 EXCEPT !.data = [name |-> "llmTextReply", text |-> text]]

(***************************************************************************)
(* lib/llm.js: llmAnalyzeMedia                                             *)
(***************************************************************************)
startsWith(s, prefix) == Len(prefix) <= Len(s) /\ SubSeq(s, 1, Len(prefix)) = prefix

\* the if-chain on contentType that picks the prompt
mediaMode(contentType) ==
    IF startsWith(contentType, Chars("image/")) THEN "image"
    ELSE IF startsWith(contentType, Chars("audio/")) THEN "audio"
    ELSE IF startsWith(contentType, Chars("video/")) THEN "video"
    ELSE IF contentType = Chars("application/pdf") \/ includes(contentType, Chars("document"))
         THEN "document"
    ELSE "unknown"

\* what generateContent gives back for a media part: a text, an empty text, or an
\* exception, whose message is AiError
MediaAiOutcomes == {"text", "empty", "throw"}
AiError == Chars("[429 Too Many Requests] quota exceeded")

Unavailable ==
    [name |-> "llmAnalyzeMedia:unavailable",
     text |-> Chars("Media analysis is currently unavailable. Please contact our staff for manual review.")]

manualReview(filename) ==
    [name |-> "llmAnalyzeMedia:manualReview",
     text |-> Chars("File received: ")
              \o (IF filename = <<>> THEN Chars("Unknown file") ELSE filename)
              \o Chars(". Our staff will review this file type manually.")]

mediaLabel(mediaType) ==
    CASE mediaType = "image" -> <<"U+1F4F8">> \o Chars(" **Image Analysis:**")
      [] mediaType = "audio" -> <<"U+1F3B5">> \o Chars(" **Audio Transcription:**")
      [] mediaType = "video" -> <<"U+1F3A5">> \o Chars(" **Video Summary:**")
      [] OTHER -> <<"U+1F4C4">> \o Chars(" **Document Summary:**")

Disclaimer ==
    Chars("*Note: This is an AI analysis. For medical concerns, please consult with our healthcare professionals.*")

formattedResponse(mediaType, text) ==
    [name |-> "llmAnalyzeMedia",
     text |-> joinLines(<<mediaLabel(mediaType), text, <<>>, Disclaimer>>)]

mediaFallback_WithError(contentType, filename, error) ==
    [name |-> "llmAnalyzeMedia:fallback",
     text |-> Chars("File received. ") \o error]

\* the catch block: the reply is chosen by contentType, the error is only logged
mediaFallback(contentType, filename, error) ==
    [name |-> "llmAnalyzeMedia:fallback",
     text |->
        IF startsWith(contentType, Chars("image/"))
        THEN <<"U+1F4F8">> \o Chars(" Image received. Our medical staff will review it during your appointment.")
        ELSE IF startsWith(contentType, Chars("audio/"))
        THEN <<"U+1F3B5">> \o Chars(" Audio message received. Our staff will listen to it and respond accordingly.")
        ELSE IF startsWith(contentType, Chars("video/"))
        THEN <<"U+1F3A5">> \o Chars(" Video received. Our team will review it as part of your consultation.")
        ELSE IF contentType = Chars("application/pdf")
        THEN <<"U+1F4C4">> \o Chars(" Document received. Our staff will review it and discuss during your appointment.")
        ELSE Chars("File received (")
             \o (IF filename = <<>> THEN Chars("unknown type") ELSE filename)
             \o Chars("). Our team will review it manually.")]

llmAnalyzeMedia_AlwaysAsks(st, contentType, filename, ao) ==
    LET s1 == called(st, "llmAnalyzeMedia", [contentType |-> contentType, filename |-> filename])
        s2 == called(s1, "generateContent", [mode |-> mediaMode(contentType), mimeType |-> contentType])
    IN  IF ~env.gemini THEN [s1 EXCEPT !.data = Unavailable]
        ELSE IF ao = "throw" THEN [s2 EXCEPT !.data = mediaFallback(contentType, filename, AiError)]
        ELSE [s2 EXCEPT !.data = formattedResponse(mediaMode(contentType),
                                                   IF ao = "text" THEN AiText ELSE <<>>)]

llmAnalyzeMedia(st, contentType, filename, ao) ==
    LET s1 == called(st, "llmAnalyzeMedia", [contentType |-> contentType, filename |-> filename])
        mediaType == mediaMode(contentType)
        s2 == called(s1, "generateContent", [mode |-> mediaType, mimeType |-> contentType])
    IN  IF ~env.gemini THEN [s1 EXCEPT !.data = Unavailable]
        ELSE IF mediaType = "unknown" THEN [s1 EXCEPT !.data = manualReview(filename)]
        ELSE IF ao = "throw" THEN [s2 EXCEPT !.data = mediaFallback(contentType, filename, AiError)]
        ELSE [s2 EXCEPT !.data = formattedResponse(mediaType, IF ao = "text" THEN AiText ELSE <<>>)]

\* the wrappers differ in the filename they pass on
analyzeImage(st, contentType, ao) == llmAnalyzeMedia(st, contentType, Chars("image_file"), ao)
transcribeAudio(st, contentType, ao) == llmAnalyzeMedia(st, contentType, Chars("audio_message"), ao)
summarizeVideo(st, contentType, ao) == llmAnalyzeMedia(st, contentType, Chars("video_file"), ao)
summarizeDocument(st, contentType, filename, ao) == llmAnalyzeMedia(st, contentType, filename, ao)

(***************************************************************************)
(* routes/telegram.js: safeHandler and the two middleware                  *)
(***************************************************************************)
\* the messages of the errors the callbacks can meet: ctx.from.id without a sender,
\* next() without a next, a ctx.reply the Bot API refuses, a download that is not ok,
\* and a generateContent that fails
FromError == Chars("Cannot read properties of undefined (reading 'id')")
NextError == Chars("next is not a function")
SendError == Chars("403: Forbidden: bot was blocked by the user")
DownloadError == Chars("Failed to download file: Not Found")
Errors == {FromError, NextError, SendError, DownloadError, AiError}

safeHandler_LeaksError(st, fails) ==
    IF st.threw
    THEN [st EXCEPT !.replies = Append(@, [msg |-> [name |-> "getErrorMessage",
                                                    text |-> Chars("Error: ") \o SendError],
                                           by |-> "safeHandler",
                                           ok |-> Len(st.replies) >= fails]),
                    !.threw = FALSE]
    ELSE st

safeHandler_NoInnerTry(st, fails) ==
    IF st.threw
    THEN [st EXCEPT !.replies = Append(@, [msg |-> Fixed("getErrorMessage"), by |-> "safeHandler",
                                           ok |-> Len(st.replies) >= fails]),
                    !.threw = Len(st.replies) < fails]
    ELSE st

\* the catch of safeHandler: one attempt to send getErrorMessage(), whose own
\* failure is swallowed
safeHandler(st, fails) ==
    IF st.threw
    THEN [st EXCEPT !.replies = Append(@, [msg |-> Fixed("getErrorMessage"), by |-> "safeHandler",
                                           ok |-> Len(st.replies) >= fails]),
                    !.threw = FALSE]
    ELSE st

\* `return next()`: a TypeError when the callback was handed no next
callNext(st, next) == IF next THEN st ELSE [st EXCEPT !.threw = TRUE]

\* bot.use #1; the upserted row becomes ctx.patient (see Identified)
identificationMiddleware(c, st, so, next) ==
    IF c.from = NoUser THEN callNext(st, next)
    ELSE callNext(upsertPatientByTelegramId(st, c.from, so), next)

\* ctx.patient and ctx.consentOptIn as the identification middleware leaves them
Identified(c, st) ==
    IF c.from = NoUser THEN c
    ELSE [c EXCEPT !.patient = st.data,
                   !.consentOptIn = (st.data = NoRecord \/ st.data.consent_opt_in)]

getMessageType(message) == message.type

\* bot.use #2, after `await next()` has returned
loggingMiddleware(c, st, lo) ==
    IF c.consentOptIn /\ c.patient # NoRecord
    THEN logChat(st, [patient_id |-> c.patient.id, telegram_user_id |-> c.from,
                      telegram_chat_id |-> c.chat,
                      message_type |-> getMessageType(c.message),
                      message_text |-> c.message.text], lo)
    ELSE st

(***************************************************************************)
(* routes/telegram.js: the command handlers                                *)
(***************************************************************************)
startHandler(c, st, fails) == reply(st, Fixed("getMainMenu"), fails)
helpHandler(c, st, fails) == reply(st, Fixed("getHelpMenu"), fails)
menuHandler(c, st, fails) == reply(st, Fixed("getMainMenu"), fails)
faqHandler(c, st, fails) == reply(st, Fixed("getFAQMenu"), fails)

\* ctx.from.id of an update without a sender is a TypeError
whoamiHandler(c, st, fails) ==
    IF c.from = NoUser THEN [st EXCEPT !.threw = TRUE]
    ELSE reply(st, [name |-> "whoami", text |-> Chars("User ID: ") \o numStr(c.from)], fails)

consentHandler(c, st, consentOptIn, msg, so, fails) ==
    IF c.from = NoUser THEN [st EXCEPT !.threw = TRUE]
    ELSE reply(updatePatientConsent(st, c.from, consentOptIn, so), msg, fails)

optoutHandler(c, st, so, fails) == consentHandler(c, st, FALSE, Fixed("getOptOutMessage"), so, fails)
optinHandler(c, st, so, fails) == consentHandler(c, st, TRUE, Fixed("getOptInMessage"), so, fails)

Unauthorized == Fixed("Unauthorized. This command is restricted to clinic administrators.")

dailyBriefMessage(briefData) ==
    [name |-> "Daily Brief",
     text |-> joinLines(<<Chars("Chats: ") \o numStr(briefData.chats),
                          Chars("Bookings: ") \o numStr(briefData.bookings),
                          Chars("Cancels: ") \o numStr(briefData.cancels),
                          Chars("FAQs: ") \o numStr(briefData.faqs)>>)]

\* a reply that throws inside the try is caught and answered by the error reply
mdBriefHandler_FetchFirst(c, st, qo, fails) ==
    IF c.from = NoUser THEN [st EXCEPT !.threw = TRUE]
    ELSE LET s1 == getDailyBrief(st, qo)
             s2 == reply(s1, dailyBriefMessage(s1.data), fails)
         IN  IF ~isAuthorizedMD(c.from) THEN reply(s1, Unauthorized, fails)
             ELSE IF s2.threw
             THEN reply([s2 EXCEPT !.threw = FALSE], Fixed("Error retrieving daily brief."), fails)
             ELSE s2

mdBriefHandler(c, st, qo, fails) ==
    IF c.from = NoUser THEN [st EXCEPT !.threw = TRUE]
    ELSE IF ~isAuthorizedMD(c.from) THEN reply(st, Unauthorized, fails)
    ELSE LET s1 == getDailyBrief(st, qo)
             s2 == reply(s1, dailyBriefMessage(s1.data), fails)
         IN  IF s2.threw
             THEN reply([s2 EXCEPT !.threw = FALSE], Fixed("Error retrieving daily brief."), fails)
             ELSE s2

followupLine(apt, index) ==
    numStr(index) \o Chars(". **") \o apt.full_name \o Chars("** - ")
    \o (IF apt.preferred_datetime = <<>> THEN Chars("TBD") ELSE apt.preferred_datetime)
    \o Chars(" (") \o Chars(apt.status) \o Chars(")")

followupsMessage(followups) ==
    [name |-> "Pending Follow-ups",
     text |-> joinLines([i \in 1..Len(followups) |-> followupLine(followups[i], i)]
                        \o <<Chars("Total: ") \o numStr(Len(followups)) \o Chars(" appointments")>>)]

mdFollowupsHandler(c, st, so, fails) ==
    IF c.from = NoUser THEN [st EXCEPT !.threw = TRUE]
    ELSE IF ~isAuthorizedMD(c.from) THEN reply(st, Unauthorized, fails)
    ELSE LET s1 == getFollowupAppointments(st, 20, so)
             s2 == IF Len(s1.data) = 0
                   THEN reply(s1, Fixed("No pending follow-ups at this time."), fails)
                   ELSE reply(s1, followupsMessage(s1.data), fails)
         IN  IF s2.threw
             THEN reply([s2 EXCEPT !.threw = FALSE], Fixed("Error retrieving follow-ups."), fails)
             ELSE s2

(***************************************************************************)
(* routes/telegram.js: bot.on('text')                                      *)
(***************************************************************************)
bookingShortcuts == {Chars("1"), Chars("book"), Chars("booking"), Chars("appointment")}
faqShortcuts == {Chars("2"), Chars("faq"), Chars("faqs"), Chars("info"), Chars("information")}
staffShortcuts == {Chars("3"), Chars("staff"), Chars("agent"), Chars("human"), Chars("person")}

lowerText_AsTyped(text) == text

\* const lowerText = text.toLowerCase()
lowerText(text) == toLowerCase(text)

textBranch_NoEmptyCheck(text) ==
    IF containsEmergencyKeywords(text) THEN "emergency"
    ELSE IF ownerRegexTest(text) THEN "owner"
    ELSE IF lowerText(text) \in bookingShortcuts THEN "bookingInstructions"
    ELSE IF lowerText(text) \in faqShortcuts THEN "faq"
    ELSE IF lowerText(text) \in staffShortcuts THEN "staff"
    ELSE IF looksLikeBooking(text)
         THEN IF validateBookingFormat(text).valid THEN "booking" ELSE "invalidBooking"
    ELSE IF hasHealthKeywords(text) THEN "health"
    ELSE "ai"

textBranch_BookingFirst(text) ==
    IF text = <<>> THEN "empty"
    ELSE IF looksLikeBooking(text)
         THEN IF validateBookingFormat(text).valid THEN "booking" ELSE "invalidBooking"
    ELSE IF containsEmergencyKeywords(text) THEN "emergency"
    ELSE IF ownerRegexTest(text) THEN "owner"
    ELSE IF lowerText(text) \in bookingShortcuts THEN "bookingInstructions"
    ELSE IF lowerText(text) \in faqShortcuts THEN "faq"
    ELSE IF lowerText(text) \in staffShortcuts THEN "staff"
    ELSE IF hasHealthKeywords(text) THEN "health"
    ELSE "ai"

textBranch_InvalidFallsThrough(text) ==
    IF text = <<>> THEN "empty"
    ELSE IF containsEmergencyKeywords(text) THEN "emergency"
    ELSE IF ownerRegexTest(text) THEN "owner"
    ELSE IF lowerText(text) \in bookingShortcuts THEN "bookingInstructions"
    ELSE IF lowerText(text) \in faqShortcuts THEN "faq"
    ELSE IF lowerText(text) \in staffShortcuts THEN "staff"
    ELSE IF looksLikeBooking(text) /\ validateBookingFormat(text).valid THEN "booking"
    ELSE IF hasHealthKeywords(text) THEN "health"
    ELSE "ai"

textBranch_OwnerAfterBooking(text) ==
    IF text = <<>> THEN "empty"
    ELSE IF containsEmergencyKeywords(text) THEN "emergency"
    ELSE IF lowerText(text) \in bookingShortcuts THEN "bookingInstructions"
    ELSE IF lowerText(text) \in faqShortcuts THEN "faq"
    ELSE IF lowerText(text) \in staffShortcuts THEN "staff"
    ELSE IF looksLikeBooking(text)
         THEN IF validateBookingFormat(text).valid THEN "booking" ELSE "invalidBooking"
    ELSE IF ownerRegexTest(text) THEN "owner"
    ELSE IF hasHealthKeywords(text) THEN "health"
    ELSE "ai"

textBranch_HealthBeforeEmergency(text) ==
    IF text = <<>> THEN "empty"
    ELSE IF hasHealthKeywords(text) THEN "health"
    ELSE IF containsEmergencyKeywords(text) THEN "emergency"
    ELSE IF ownerRegexTest(text) THEN "owner"
    ELSE IF lowerText(text) \in bookingShortcuts THEN "bookingInstructions"
    ELSE IF lowerText(text) \in faqShortcuts THEN "faq"
    ELSE IF lowerText(text) \in staffShortcuts THEN "staff"
    ELSE IF looksLikeBooking(text)
         THEN IF validateBookingFormat(text).valid THEN "booking" ELSE "invalidBooking"
    ELSE "ai"

\* the if-chain of the handler on the sanitized text: the first test that holds
\* decides, each branch ends in return
textBranch(text) ==
    IF text = <<>> THEN "empty"
    ELSE IF containsEmergencyKeywords(text) THEN "emergency"
    ELSE IF ownerRegexTest(text) THEN "owner"
    ELSE IF lowerText(text) \in bookingShortcuts THEN "bookingInstructions"
    ELSE IF lowerText(text) \in faqShortcuts THEN "faq"
    ELSE IF lowerText(text) \in staffShortcuts THEN "staff"
    ELSE IF looksLikeBooking(text)
         THEN IF validateBookingFormat(text).valid THEN "booking" ELSE "invalidBooking"
    ELSE IF hasHealthKeywords(text) THEN "health"
    ELSE "ai"

appointmentData_ChatIsSender(c, text) ==
    LET validation == validateBookingFormat(text)
    IN  [patient_id |-> c.patient.id,
         full_name |-> validation.name,
         preferred_datetime |-> validation.timeSlot,
         telegram_user_id |-> c.from,
         telegram_chat_id |-> c.from,
         raw_request |-> text]

\* the argument of db.createAppointment in the booking branch
appointmentData(c, text) ==
    LET validation == validateBookingFormat(text)
    IN  [patient_id |-> c.patient.id,
         full_name |-> validation.name,
         preferred_datetime |-> validation.timeSlot,
         telegram_user_id |-> c.from,
         telegram_chat_id |-> c.chat,
         raw_request |-> text]

\* `if (ctx.patient) await db.createAppointment(...)`, then the confirmation
bookingBranch(c, st, text, so, fails) ==
    LET s1 == IF c.patient # NoRecord
              THEN createAppointment(st, appointmentData(c, text), so)
              ELSE st
    IN  IF s1.threw THEN s1 ELSE reply(s1, getBookingReply(text), fails)

aiBranch_GuidedOnly(c, st, text, ao, fails) == reply(st, Fixed("guidedOptions"), fails)

\* try { reply(await llmTextReply(text)) } catch { reply(guided options) }
aiBranch(c, st, text, ao, fails) ==
    LET s1 == llmTextReply(st, text, ao)
        s2 == reply(s1, s1.data, fails)
    IN  IF s2.threw
        THEN reply([s2 EXCEPT !.threw = FALSE], Fixed("guidedOptions"), fails)
        ELSE s2

textReply_HealthFallsThrough(c, st, text, b, so, ao, fails) ==
    LET s0 == [st EXCEPT !.branch = b]
    IN  CASE b = "empty" -> s0
          [] b = "emergency" -> reply(s0, Fixed("getEmergencyResponse"), fails)
          [] b = "owner" -> reply(s0, Fixed("getOwnerProfile"), fails)
          [] b = "bookingInstructions" -> reply(s0, Fixed("getBookingInstructions"), fails)
          [] b = "faq" -> reply(s0, Fixed("getFAQMenu"), fails)
          [] b = "staff" -> reply(s0, Fixed("getStaffConnectionMessage"), fails)
          [] b = "booking" -> bookingBranch(c, s0, text, so, fails)
          [] b = "invalidBooking" -> reply(s0, Fixed("getInvalidBookingMessage"), fails)
          [] b = "health" ->
                LET s1 == reply(s0, Fixed("getHealthResponse"), fails)
                IN  IF s1.threw THEN s1 ELSE aiBranch(c, s1, text, ao, fails)
          [] OTHER -> aiBranch(c, s0, text, ao, fails)

\* the handler from `const text = utils.sanitizeText(ctx.message.text)` on, in
\* branch b of its if-chain
textReply(c, st, text, b, so, ao, fails) ==
    LET s0 == [st EXCEPT !.branch = b]
    IN  CASE b = "empty" -> s0
          [] b = "emergency" -> reply(s0, Fixed("getEmergencyResponse"), fails)
          [] b = "owner" -> reply(s0, Fixed("getOwnerProfile"), fails)
          [] b = "bookingInstructions" -> reply(s0, Fixed("getBookingInstructions"), fails)
          [] b = "faq" -> reply(s0, Fixed("getFAQMenu"), fails)
          [] b = "staff" -> reply(s0, Fixed("getStaffConnectionMessage"), fails)
          [] b = "booking" -> bookingBranch(c, s0, text, so, fails)
          [] b = "invalidBooking" -> reply(s0, Fixed("getInvalidBookingMessage"), fails)
          [] b = "health" -> reply(s0, Fixed("getHealthResponse"), fails)
          [] OTHER -> aiBranch(c, s0, text, ao, fails)

textHandler(c, st, so, ao, fails) ==
    LET text == sanitizeText(c.message.text)
    IN  textReply(c, st, text, textBranch(text), so, ao, fails)

(***************************************************************************)
(* routes/telegram.js: the media handlers and handleMedia                  *)
(***************************************************************************)
orElse(value, default) == IF value = <<>> THEN default ELSE value

mimeType_KindDefault(message, mediaType) ==
    CASE mediaType = "photo" -> Chars("image/jpeg")
      [] mediaType = "voice" -> Chars("audio/ogg")
      [] mediaType = "video_note" -> Chars("video/mp4")
      [] mediaType = "video" -> Chars("video/mp4")
      [] mediaType = "document" -> Chars("application/pdf")
      [] OTHER -> Chars("audio/mpeg")

\* the switch of handleMedia: mimeType
mimeType(message, mediaType) ==
    CASE mediaType = "photo" -> Chars("image/jpeg")
      [] mediaType = "voice" -> orElse(message.mime_type, Chars("audio/ogg"))
      [] mediaType = "video_note" -> Chars("video/mp4")
      [] mediaType = "video" -> orElse(message.mime_type, Chars("video/mp4"))
      [] mediaType = "document" -> orElse(message.mime_type, Chars("application/octet-stream"))
      [] OTHER -> orElse(message.mime_type, Chars("audio/mpeg"))

\* the switch of handleMedia: fileName
fileName(message, mediaType) ==
    CASE mediaType = "photo" -> Chars("photo.jpg")
      [] mediaType = "voice" -> Chars("voice.ogg")
      [] mediaType = "video_note" -> Chars("video_note.mp4")
      [] mediaType = "video" -> orElse(message.file_name, Chars("video.mp4"))
      [] mediaType = "document" -> orElse(message.file_name, Chars("document"))
      [] OTHER -> orElse(message.file_name, Chars("audio.mp3"))

\* the processor each bot.on hands to handleMedia
processor(st, mediaType, contentType, filename, ao) ==
    CASE mediaType = "photo" -> analyzeImage(st, contentType, ao)
      [] mediaType \in {"voice", "audio"} -> transcribeAudio(st, contentType, ao)
      [] mediaType \in {"video_note", "video"} -> summarizeVideo(st, contentType, ao)
      [] OTHER -> summarizeDocument(st, contentType, filename, ao)

\* how fetching the file ends: the bytes, an exception of getFile or fetch, or a
\* response that is not ok
DownloadOutcomes == {"ok", "throw", "notOk"}

CouldNotProcess(mediaType) == [name |-> "couldNotProcess", text |-> Chars(mediaType)]

\* everything is inside one try; its catch sends the could-not-process reply, and an
\* exception of that reply leaves the handler
handleMedia(c, st, mediaType, dl, ao, fails) ==
    LET s1 == called(st, "getFile", [mediaType |-> mediaType])
        s2 == processor(s1, mediaType, mimeType(c.message, mediaType),
                        fileName(c.message, mediaType), ao)
        s3 == reply(s2, s2.data, fails)
    IN  IF dl # "ok" THEN reply(s1, CouldNotProcess(mediaType), fails)
        ELSE IF s3.threw THEN reply([s3 EXCEPT !.threw = FALSE], CouldNotProcess(mediaType), fails)
        ELSE s3

(***************************************************************************)
(* The inbound events                                                      *)
(***************************************************************************)
Texts ==
    {Chars("I have chest pain, John Doe, Friday 3pm"),
     Chars("Ada Lovelace, Friday 3pm"),
     Chars("A, B"),
     Chars("1"), Chars("book"), Chars("BOOKING"),
     Chars("2"), Chars("Faqs"),
     Chars("3"), Chars(" Staff "),
     Chars("Help, me"),
     Chars("Ada <b>Lovelace</b>, Friday 3pm"),
     Chars("  Ada Lovelace, Friday 3pm "),
     Chars("Ada Lovelace, Monday=3pm"),
     Chars("JavaScript:Ada, Friday 3pm"),
     Chars("   "),
     Chars("<>"),
     Chars("I feel sick"),
     Chars("hello there"),
     Chars("Dr. Kunle Adesina, Friday 3pm"),
     Chars("is drx kunle adesina in"),
     Chars("I want to schedule"),
     Chars("helping"),
     Chars("John Doe, Friday 3pm, thanks"),
     Chars("John Doe, 3p"),
     Chars("a question"),
     Chars("who is dr. kunle adesina"),
     Chars("URGENT"),
     Chars("an Emergency")}

Commands ==
    {"start", "help", "menu", "faq", "whoami", "optout", "optin", "md_brief", "md_followups"}

MediaTypes == {"photo", "voice", "video_note", "video", "document", "audio"}

\* who sent the update and in which chat: two private chats, a group, a channel post
Senders ==
    {[from |-> 1, chat |-> 1], [from |-> 2, chat |-> 2],
     [from |-> 2, chat |-> GroupChat], [from |-> NoUser, chat |-> GroupChat]}

\* message.text, and the bot_command entity at its start ("" when there is none)
TextMessages ==
    {[type |-> "text", text |-> t, command |-> "", mime_type |-> <<>>, file_name |-> <<>>] :
        t \in Texts}
CommandMessages ==
    {[type |-> "text", text |-> <<"/">> \o Chars(c), command |-> c, mime_type |-> <<>>,
      file_name |-> <<>>] : c \in Commands}

\* the content types a voice, video, document or audio object declares (<<>>: none)
MimeTypes ==
    {<<>>, Chars("image/png"), Chars("audio/ogg"), Chars("video/mp4"), Chars("application/pdf"),
     Chars("application/vnd.oasis.opendocument.text"), Chars("text/plain")}

\* a photo and a video note carry no mime_type and no file_name, a voice no
\* file_name; the videos and audios of the model come without a file_name
MediaMessages ==
    {[type |-> m, text |-> <<>>, command |-> "", mime_type |-> <<>>, file_name |-> <<>>] :
        m \in {"photo", "video_note"}}
    \cup {[type |-> m, text |-> <<>>, command |-> "", mime_type |-> t, file_name |-> <<>>] :
            m \in {"voice", "video", "audio"}, t \in MimeTypes}
    \cup {[type |-> "document", text |-> <<>>, command |-> "", mime_type |-> t, file_name |-> f] :
            t \in MimeTypes, f \in {<<>>, Chars("scan.bin")}}

Update(s, m) == [from |-> s.from, chat |-> s.chat, message |-> m]
Updates == {Update(s, m) : s \in Senders, m \in TextMessages \cup CommandMessages}
AllUpdates == {Update(s, m) : s \in Senders, m \in TextMessages \cup CommandMessages \cup MediaMessages}

\* Telegraf's routing: a registered command goes to its handler, any other
\* message to the bot.on handler of its type
route(message) == IF message.command \in Commands THEN message.command ELSE message.type

Idle ==
    [stage |-> "idle", from |-> NoUser, chat |-> NoUser,
     message |-> [type |-> "", text |-> <<>>, command |-> "", mime_type |-> <<>>,
                  file_name |-> <<>>],
     patient |-> NoRecord, consentOptIn |-> FALSE, handler |-> "", branch |-> "",
     sendFailures |-> 0]

\* the context of an update; of its ctx.reply attempts the first `fails` throw
NewContext(u, fails) ==
    [Idle EXCEPT !.stage = "received", !.from = u.from, !.chat = u.chat, !.message = u.message,
                 !.sendFailures = fails]

IdleHttp == [stage |-> "idle", route |-> "", apiKey |-> NoAdmin, status |-> 0, body |-> NoRecord]

\* the most ctx.reply attempts of one update that are made to throw
MaxSendFailures == 3

\* the outcomes of the four count queries of getDailyBrief
QueryOutcomes == [1..4 -> StorageOutcomes]

(***************************************************************************)
(* Spec: one inbound event through the callbacks                           *)
(***************************************************************************)
Init ==
    /\ env \in Envs
    /\ patients = [u \in Users |-> NoRecord]
    /\ appointments = <<>>
    /\ chat_logs = <<>>
    /\ ctx = Idle
    /\ replies = <<>>
    /\ calls = <<>>
    /\ http = IdleHttp
    /\ arg = <<>>
    /\ ret = NoRecord

\* what a callback did becomes the state
Commit(st) ==
    /\ replies' = st.replies
    /\ calls' = st.calls
    /\ patients' = st.patients
    /\ appointments' = st.appointments
    /\ chat_logs' = st.chat_logs

Receive ==
    /\ ctx.stage = "idle" /\ http.stage = "idle"
    /\ \E u \in AllUpdates, fails \in 0..MaxSendFailures : ctx' = NewContext(u, fails)
    /\ UNCHANGED <<env, patients, appointments, chat_logs, replies, calls, http, arg, ret>>

\* where the chain stands once a wrapped callback has returned: an exception that
\* left the wrapper rejects the promise of handleUpdate
settled(st, stage) == IF st.threw THEN "crashed" ELSE stage

\* the identification middleware, handed a next that continues the chain
Identify ==
    /\ ctx.stage = "received"
    /\ \E so \in StorageOutcomes :
         LET st == safeHandler(identificationMiddleware(ctx, Begin, so, TRUE), ctx.sendFailures)
         IN  /\ Commit(st)
             /\ ctx' = [Identified(ctx, st) EXCEPT !.stage = settled(st, "identified")]
    /\ UNCHANGED <<env, http, arg, ret>>

\* a terminal handler: its body under safeHandler
Handle(name, st) ==
    /\ ctx.stage = "identified"
    /\ route(ctx.message) = name
    /\ Commit(safeHandler(st, ctx.sendFailures))
    /\ ctx' = [ctx EXCEPT !.stage = settled(safeHandler(st, ctx.sendFailures), "handled"),
                          !.handler = name, !.branch = st.branch]
    /\ UNCHANGED <<env, http, arg, ret>>

Start == Handle("start", startHandler(ctx, Begin, ctx.sendFailures))

Help == Handle("help", helpHandler(ctx, Begin, ctx.sendFailures))

Menu == Handle("menu", menuHandler(ctx, Begin, ctx.sendFailures))

Faq == Handle("faq", faqHandler(ctx, Begin, ctx.sendFailures))

Whoami == Handle("whoami", whoamiHandler(ctx, Begin, ctx.sendFailures))

Optout == \E so \in StorageOutcomes :
    Handle("optout", optoutHandler(ctx, Begin, so, ctx.sendFailures))

Optin == \E so \in StorageOutcomes :
    Handle("optin", optinHandler(ctx, Begin, so, ctx.sendFailures))

MdBrief == \E qo \in QueryOutcomes :
    Handle("md_brief", mdBriefHandler(ctx, Begin, qo, ctx.sendFailures))

MdFollowups == \E so \in StorageOutcomes :
    Handle("md_followups", mdFollowupsHandler(ctx, Begin, so, ctx.sendFailures))

\* textHandler, its text sanitized and classified once for all outcomes
Text ==
    LET text == sanitizeText(ctx.message.text)
        b == textBranch(text)
    IN  \E so \in StorageOutcomes, ao \in AiOutcomes :
            Handle("text", textReply(ctx, Begin, text, b, so, ao, ctx.sendFailures))

Media(mediaType) ==
    \E dl \in DownloadOutcomes, ao \in MediaAiOutcomes :
        Handle(mediaType, handleMedia(ctx, Begin, mediaType, dl, ao, ctx.sendFailures))

Photo == Media("photo")

Voice == Media("voice")

VideoNote == Media("video_note")

Video == Media("video")

Document == Media("document")

Audio == Media("audio")

\* the logging middleware once `await next()` has returned
Log ==
    /\ ctx.stage = "handled"
    /\ \E lo \in StorageOutcomes :
         LET st == safeHandler(loggingMiddleware(ctx, Begin, lo), ctx.sendFailures)
         IN  /\ Commit(st)
             /\ ctx' = [ctx EXCEPT !.stage = settled(st, "done")]
    /\ UNCHANGED <<env, http, arg, ret>>

(***************************************************************************)
(* server.js: the HTTP read endpoints                                      *)
(***************************************************************************)
\* the Authorization header of a request: none, or "Bearer <id>"
ApiKeys == {NoAdmin} \cup Users

Forbidden == [error |-> "Unauthorized - MD access not configured"]

\* a request is served from the start-up state; apiKey is read and not used
Serve(path, apiKey, st, status, body) ==
    /\ ctx.stage = "idle" /\ http.stage = "idle"
    /\ Commit(st)
    /\ http' = [stage |-> "served", route |-> path, apiKey |-> apiKey,
                status |-> status, body |-> body]
    /\ UNCHANGED <<env, ctx, arg, ret>>

ApiMdBrief ==
    \E apiKey \in ApiKeys, qo \in QueryOutcomes :
        IF env.MD_TELEGRAM_USER_ID = NoAdmin
        THEN Serve("/api/md/brief", apiKey, Begin, 403, Forbidden)
        ELSE LET st == getDailyBrief(Begin, qo)
             IN  Serve("/api/md/brief", apiKey, st, 200, st.data)

ApiMdFollowups ==
    \E apiKey \in ApiKeys, so \in StorageOutcomes :
        IF env.MD_TELEGRAM_USER_ID = NoAdmin
        THEN Serve("/api/md/followups", apiKey, Begin, 403, Forbidden)
        ELSE LET st == getFollowupAppointments(Begin, 20, so)
             IN  Serve("/api/md/followups", apiKey, st, 200,
                       [count |-> Len(st.data), appointments |-> st.data])

Next ==
    \/ Receive \/ Identify
    \/ Start \/ Help \/ Menu \/ Faq \/ Whoami \/ Optout \/ Optin \/ MdBrief \/ MdFollowups
    \/ Text
    \/ Photo \/ Voice \/ VideoNote \/ Video \/ Document \/ Audio
    \/ Log
    \/ ApiMdBrief \/ ApiMdFollowups

Spec == Init /\ [][Next]_vars

(***************************************************************************)
(* BotSpec: the bot as createTelegramBot builds it.  bot.use, bot.start,   *)
(* bot.command and bot.on are each given safeHandler(callback), and        *)
(* safeHandler(handler) is `async (ctx) => { try { await handler(ctx) }    *)
(* ... }`: Telegraf's `next` is no parameter of it, the callback is called *)
(* without one, and the wrapper itself never continues the chain.          *)
(***************************************************************************)
\* whether the callback safeHandler wraps is handed Telegraf's next
safeHandlerPassesNext == FALSE

\* a new update arrives once the one before it is settled
BotReceive ==
    /\ ctx.stage = "idle"
    /\ \E u \in AllUpdates, fails \in 0..MaxSendFailures : ctx' = NewContext(u, fails)
    /\ UNCHANGED <<env, patients, appointments, chat_logs, replies, calls, http, arg, ret>>

\* the promise of handleUpdate settles; the tables keep what the update wrote
BotSettle ==
    /\ ctx.stage = "done"
    /\ ctx' = Idle
    /\ replies' = <<>>
    /\ calls' = <<>>
    /\ UNCHANGED <<env, patients, appointments, chat_logs, http, arg, ret>>

\* the first middleware of the chain under its wrapper; the chain goes on to the
\* logging middleware and the handlers only if the wrapper continues it
BotIdentify ==
    /\ ctx.stage = "received"
    /\ \E so \in StorageOutcomes :
         LET st == safeHandler(identificationMiddleware(ctx, Begin, so, safeHandlerPassesNext),
                               ctx.sendFailures)
         IN  /\ Commit(st)
             /\ ctx' = [Identified(ctx, st) EXCEPT
                           !.stage = settled(st, IF safeHandlerPassesNext THEN "identified"
                                                     ELSE "done")]
    /\ UNCHANGED <<env, http, arg, ret>>

BotNext == BotReceive \/ BotIdentify \/ BotSettle

BotSpec == Init /\ [][BotNext]_vars

(***************************************************************************)
(* SessionSpec: updates one after another through the identification       *)
(* middleware, /optout, /optin, the text handler and the logging           *)
(* middleware, over the same tables                                        *)
(***************************************************************************)
\* the session ends when chat_logs holds this many rows
MaxLogs == 2

SessionUpdates ==
    {Update(s, m) : s \in {x \in Senders : x.from = x.chat},
                    m \in {x \in TextMessages \cup CommandMessages :
                              \/ x.command \in {"optout", "optin"}
                              \/ x.text = Chars("hello there")}}

SessionReceive ==
    /\ ctx.stage \in {"idle", "done"}
    /\ Len(chat_logs) < MaxLogs
    /\ \E u \in SessionUpdates : ctx' = NewContext(u, 0)
    /\ replies' = <<>>
    /\ calls' = <<>>
    /\ UNCHANGED <<env, patients, appointments, chat_logs, http, arg, ret>>

SessionNext == SessionReceive \/ Identify \/ Optout \/ Optin \/ Text \/ Log

SessionSpec == Init /\ [][SessionNext]_vars

(***************************************************************************)
(* PureSpec: the pure functions of lib/utils.js on the texts of a bounded  *)
(* set                                                                     *)
(***************************************************************************)
\* the longest text enumerated over PureAlphabet
MaxLen == 7
PureAlphabet == {"a", "b", " ", ","}
PureTexts == Texts \cup UNION {[1..n -> PureAlphabet] : n \in 0..MaxLen}

PureInit ==
    /\ env = [MD_TELEGRAM_USER_ID |-> NoAdmin, supabase |-> FALSE, gemini |-> FALSE]
    /\ patients = [u \in Users |-> NoRecord]
    /\ appointments = <<>>
    /\ chat_logs = <<>>
    /\ ctx = Idle
    /\ replies = <<>>
    /\ calls = <<>>
    /\ http = IdleHttp
    /\ arg \in PureTexts
    /\ ret = NoRecord

Apply(fn, value) ==
    /\ ret = NoRecord
    /\ ret' = [fn |-> fn, value |-> value]
    /\ UNCHANGED <<env, patients, appointments, chat_logs, ctx, replies, calls, http, arg>>

ValidateBookingFormat == Apply("validateBookingFormat", validateBookingFormat(arg))

PureNext == ValidateBookingFormat

PureSpec == PureInit /\ [][PureNext]_vars


(***************************************************************************)
(* MediaSpec: llmAnalyzeMedia on a content type and a file name, under     *)
(* every configuration and every outcome of generateContent                *)
(***************************************************************************)
MediaArgs ==
    [contentType : (MimeTypes \ {<<>>}) \cup {Chars("image/jpeg"), Chars("audio/mpeg"),
                                              Chars("application/octet-stream")},
     filename : {<<>>, Chars("scan.bin")}]

MediaInit ==
    /\ env \in Envs
    /\ patients = [u \in Users |-> NoRecord]
    /\ appointments = <<>>
    /\ chat_logs = <<>>
    /\ ctx = Idle
    /\ replies = <<>>
    /\ calls = <<>>
    /\ http = IdleHttp
    /\ arg \in MediaArgs
    /\ ret = NoRecord

LlmAnalyzeMedia ==
    /\ ret = NoRecord
    /\ \E ao \in MediaAiOutcomes :
         LET st == llmAnalyzeMedia(Begin, arg.contentType, arg.filename, ao)
         IN  /\ calls' = st.calls
             /\ ret' = [fn |-> "llmAnalyzeMedia", value |-> st.data, threw |-> st.threw,
                        outcome |-> ao]
    /\ UNCHANGED <<env, patients, appointments, chat_logs, ctx, replies, http, arg>>

MediaNext == LlmAnalyzeMedia

MediaSpec == MediaInit /\ [][MediaNext]_vars

(***************************************************************************)
(* StorageSpec: the two read functions of lib/supabase.js behind the       *)
(* administrator commands, on tables that hold rows already                *)
(***************************************************************************)
\* the most rows the appointments table starts with
MaxAppointments == 2

StoredLog(text) ==
    [patient_id |-> PatientId(1), telegram_user_id |-> 1, telegram_chat_id |-> 1,
     message_type |-> "text", message_text |-> text]

LogRows == {StoredLog(t) : t \in {Chars("Faqs"), Chars("A Question"), Chars("hello there")}}

LogTables == {<<>>} \cup {<<a>> : a \in LogRows} \cup {<<a, b>> : a \in LogRows, b \in LogRows}

\* the bot writes 'pending'; the clinic's staff move a row on to the other statuses
StoredAppointment(name, status) ==
    [patient_id |-> PatientId(1), full_name |-> name, preferred_datetime |-> Chars("Friday 3pm"),
     status |-> status, telegram_user_id |-> 1, telegram_chat_id |-> 1,
     raw_request |-> name \o Chars(", Friday 3pm")]

AppointmentRows ==
    {StoredAppointment(n, s) : n \in {Chars("Ada Lovelace"), Chars("John Doe")},
                               s \in {"pending", "rescheduled", "cancelled"}}

AppointmentTables == UNION {[1..n -> AppointmentRows] : n \in 0..MaxAppointments}

StorageInit ==
    /\ env \in {e \in Envs : e.MD_TELEGRAM_USER_ID = NoAdmin /\ ~e.gemini}
    /\ patients = [u \in Users |-> NoRecord]
    /\ appointments \in AppointmentTables
    /\ chat_logs \in LogTables
    /\ ctx = Idle
    /\ replies = <<>>
    /\ calls = <<>>
    /\ http = IdleHttp
    /\ arg = <<>>
    /\ ret = NoRecord

Answer(fn, st, input) ==
    /\ ret = NoRecord
    /\ calls' = st.calls
    /\ ret' = [fn |-> fn, value |-> st.data, threw |-> st.threw, input |-> input]
    /\ UNCHANGED <<env, patients, appointments, chat_logs, ctx, replies, http, arg>>

GetDailyBrief ==
    \E qo \in QueryOutcomes : Answer("getDailyBrief", getDailyBrief(Begin, qo), [outcome |-> qo])

\* called with a limit, or with none
GetFollowupAppointments ==
    \E o \in StorageOutcomes, given \in BOOLEAN, limit \in 1..MaxAppointments :
        Answer("getFollowupAppointments",
               getFollowupAppointments(Begin, IF given THEN limit ELSE DefaultLimit, o),
               [outcome |-> o, given |-> given, limit |-> IF given THEN limit ELSE 0])

StorageNext == GetDailyBrief \/ GetFollowupAppointments

StorageSpec == StorageInit /\ [][StorageNext]_vars

(***************************************************************************)
(* StartupSpec: the start of a process, server.js or the polling bot       *)
(* (bot.js), under every combination of the required variables            *)
(***************************************************************************)
requiredEnvVars ==
    <<"TELEGRAM_BOT_TOKEN", "SUPABASE_URL", "SUPABASE_SERVICE_ROLE_KEY", "GEMINI_API_KEY">>

\* process.env: NODE_ENV as set ("" when it is not), and for each required variable
\* whether it holds a non-empty value
ProcessEnvs ==
    [NODE_ENV : {"production", "development", ""},
     TELEGRAM_BOT_TOKEN : BOOLEAN, SUPABASE_URL : BOOLEAN,
     SUPABASE_SERVICE_ROLE_KEY : BOOLEAN, GEMINI_API_KEY : BOOLEAN]

EntryPoints == {"server.js", "bot.js"}

\* env.NODE_ENV: process.env.NODE_ENV || 'development'
NODE_ENV(pe) == IF pe.NODE_ENV = "" THEN "development" ELSE pe.NODE_ENV

IS_PRODUCTION(pe) == NODE_ENV(pe) = "production"

\* a process: the statement it is at, whether process.exit(1) was called, the
\* warnings on the console and the clients the initializers left
Started(entry) ==
    [entry |-> entry, pc |-> "initializeEnv", exited |-> FALSE, warnings |-> {},
     supabase |-> FALSE, gemini |-> FALSE, bot |-> FALSE]

exit(p) == [p EXCEPT !.pc = "exit", !.exited = TRUE]

missing(pe) == {k \in 1..Len(requiredEnvVars) : ~pe[requiredEnvVars[k]]}

validateEnv(p, pe) ==
    IF missing(pe) # {} THEN exit(p) ELSE [p EXCEPT !.pc = "initializeSupabase"]

initializeEnv_AlwaysValidates(p, pe) ==
    validateEnv(p, pe)

initializeEnv(p, pe) ==
    IF IS_PRODUCTION(pe) THEN validateEnv(p, pe)
    ELSE [p EXCEPT !.pc = "initializeSupabase"]

initializeSupabase(p, pe) ==
    IF ~pe.SUPABASE_URL \/ ~pe.SUPABASE_SERVICE_ROLE_KEY
    THEN [p EXCEPT !.pc = "initializeGemini",
                   !.warnings = @ \cup {"Supabase not configured - using mock mode"}]
    ELSE [p EXCEPT !.pc = "initializeGemini", !.supabase = TRUE]

initializeGemini(p, pe) ==
    LET q == [p EXCEPT !.pc = IF p.entry = "bot.js" THEN "startBot" ELSE "createTelegramBot"]
    IN  IF ~pe.GEMINI_API_KEY
        THEN [q EXCEPT !.warnings = @ \cup {"Gemini API key not configured - using mock responses"}]
        ELSE [q EXCEPT !.gemini = TRUE]

\* bot.js: if (!env.TELEGRAM_BOT_TOKEN) process.exit(1)
startBot(p, pe) ==
    IF ~pe.TELEGRAM_BOT_TOKEN THEN exit(p) ELSE [p EXCEPT !.pc = "createTelegramBot"]

\* createTelegramBot throws without a token, and both entry points answer the
\* exception with process.exit(1)
createTelegramBot(p, pe) ==
    IF ~pe.TELEGRAM_BOT_TOKEN THEN exit(p) ELSE [p EXCEPT !.pc = "running", !.bot = TRUE]

\* the env object the modules read, as far as the model's Envs go
EnvOf(pe) ==
    [MD_TELEGRAM_USER_ID |-> NoAdmin,
     supabase |-> pe.SUPABASE_URL /\ pe.SUPABASE_SERVICE_ROLE_KEY,
     gemini |-> pe.GEMINI_API_KEY]

StartupInit ==
    /\ arg \in ProcessEnvs
    /\ ret \in {Started(e) : e \in EntryPoints}
    /\ env = EnvOf(arg)
    /\ patients = [u \in Users |-> NoRecord]
    /\ appointments = <<>>
    /\ chat_logs = <<>>
    /\ ctx = Idle
    /\ replies = <<>>
    /\ calls = <<>>
    /\ http = IdleHttp

Step(pc, p) ==
    /\ ret.pc = pc
    /\ ret' = p
    /\ UNCHANGED <<env, patients, appointments, chat_logs, ctx, replies, calls, http, arg>>

InitializeEnv == Step("initializeEnv", initializeEnv(ret, arg))

InitializeSupabase == Step("initializeSupabase", initializeSupabase(ret, arg))

InitializeGemini == Step("initializeGemini", initializeGemini(ret, arg))

StartBot == Step("startBot", startBot(ret, arg))

CreateTelegramBot == Step("createTelegramBot", createTelegramBot(ret, arg))

StartupNext ==
    InitializeEnv \/ InitializeSupabase \/ InitializeGemini \/ StartBot \/ CreateTelegramBot

StartupSpec == StartupInit /\ [][StartupNext]_vars

(***************************************************************************)
(* DueTodaySpec: GET /api/appointments/due-today on an appointments table  *)
(* that holds rows already                                                 *)
(***************************************************************************)
\* the most pending rows the table starts with
MaxPending == 21

\* new Date().toISOString().split('T')[0] on the day of the request
Today == Chars("2026-11-01")

\* a pending appointment, for today when `due`
PendingAppointment(due) ==
    [StoredAppointment(Chars("Ada Lovelace"), "pending") EXCEPT
        !.preferred_datetime = IF due THEN Today \o Chars(" 15:00") ELSE Chars("Friday 3pm")]

\* n pending rows in creation order, the d-th of them for today (none when d = 0),
\* after a cancelled appointment for today when `lead`
PendingTable(n, d, lead) ==
    (IF lead
     THEN <<[PendingAppointment(TRUE) EXCEPT !.status = "cancelled"]>>
     ELSE <<>>)
    \o [k \in 1..n |-> PendingAppointment(k = d)]

PendingTables ==
    {PendingTable(n, d, lead) : n \in 0..MaxPending, d \in 0..MaxPending, lead \in BOOLEAN}

DueTodayInit ==
    /\ env \in {e \in Envs : ~e.gemini}
    /\ patients = [u \in Users |-> NoRecord]
    /\ appointments \in PendingTables
    /\ chat_logs = <<>>
    /\ ctx = Idle
    /\ replies = <<>>
    /\ calls = <<>>
    /\ http = IdleHttp
    /\ arg = <<>>
    /\ ret = NoRecord

isDueToday(apt) ==
    apt.preferred_datetime # <<>> /\ includes(apt.preferred_datetime, Today)

\* the handler of the route; ret keeps how the storage service answered
ApiDueToday ==
    /\ http.stage = "idle"
    /\ \E apiKey \in ApiKeys, o \in StorageOutcomes :
         IF env.MD_TELEGRAM_USER_ID = NoAdmin
         THEN /\ http' = [stage |-> "served", route |-> "/api/appointments/due-today",
                          apiKey |-> apiKey, status |-> 403, body |-> Forbidden]
              /\ UNCHANGED <<calls, ret>>
         ELSE LET st == getAppointmentsByStatus(Begin, "pending", StatusLimit, o)
                  todayAppointments == SelectSeq(st.data, isDueToday)
              IN  /\ http' = [stage |-> "served", route |-> "/api/appointments/due-today",
                              apiKey |-> apiKey, status |-> 200,
                              body |-> [date |-> Today, count |-> Len(todayAppointments),
                                        appointments |-> todayAppointments]]
                  /\ calls' = st.calls
                  /\ ret' = [outcome |-> o]
    /\ UNCHANGED <<env, patients, appointments, chat_logs, ctx, replies, arg>>

DueTodayNext == ApiDueToday

DueTodaySpec == DueTodayInit /\ [][DueTodayNext]_vars

(***************************************************************************)
(* Properties                                                              *)
(***************************************************************************)
\* the terminal handler `name` has run for the update at hand
Handled(name) == ctx.stage \in {"handled", "done"} /\ ctx.handler = name

\* what the text handler works on
Sanitized == sanitizeText(ctx.message.text)

\* the messages the handler itself tried to send, in order
HandlerMessages ==
    LET own == SelectSeq(replies, LAMBDA r : r.by = "handler")
    IN  [i \in 1..Len(own) |-> own[i].msg]

CallsOf(fn) == SelectSeq(calls, LAMBDA k : k.fn = fn)

AiCalls == CallsOf("llmTextReply") \o CallsOf("generateContent")

\* C1: when the sanitized text contains an emergency keyword the text handler
\* sends the emergency response and nothing else of its own, takes no other
\* branch, and calls neither createAppointment nor the AI, even when the text
\* is also a valid booking submission.
C1_EmergencyFirst ==
    (Handled("text") /\ containsEmergencyKeywords(Sanitized)) =>
        /\ ctx.branch = "emergency"
        /\ HandlerMessages = <<Fixed("getEmergencyResponse")>>
        /\ CallsOf("createAppointment") = <<>>
        /\ AiCalls = <<>>

C1_Witness ==
    /\ Handled("text")
    /\ ctx.message.text = Chars("I have chest pain, John Doe, Friday 3pm")
    /\ looksLikeBooking(Sanitized) /\ validateBookingFormat(Sanitized).valid
    /\ ctx.patient # NoRecord
    /\ ctx.branch = "emergency"
    /\ replies = <<[msg |-> Fixed("getEmergencyResponse"), by |-> "handler", ok |-> TRUE]>>

\* C2: every update from an identified sender passes the identification and
\* the logging middleware and reaches the handler registered for it, and when
\* sending works every reply it gets is that handler's, none the generic
\* error message.
C2_UpdateReachesHandler ==
    (ctx.stage = "done" /\ ctx.from # NoUser) =>
        /\ ctx.handler = route(ctx.message)
        /\ ctx.sendFailures = 0 => \A i \in 1..Len(replies) : replies[i].by = "handler"

\* C3: /md_brief and /md_followups call getDailyBrief, respectively
\* getFollowupAppointments, only for the sender whose ID is the configured
\* administrator ID; any other sender, and every sender when no administrator
\* is configured, is sent the fixed unauthorized reply and neither function
\* is called.
C3_MdCommandsAdminOnly ==
    \A name \in {"md_brief", "md_followups"} :
        Handled(name) =>
            LET admin == env.MD_TELEGRAM_USER_ID # NoAdmin /\ ctx.from = env.MD_TELEGRAM_USER_ID
                fn == IF name = "md_brief" THEN "getDailyBrief" ELSE "getFollowupAppointments"
                reads == CallsOf("getDailyBrief") \o CallsOf("getFollowupAppointments")
            IN  /\ reads # <<>> => admin
                /\ admin => Len(reads) = 1 /\ reads[1].fn = fn
                /\ (ctx.from # NoUser /\ ~admin) => HandlerMessages = <<Unauthorized>>

C3_Witness ==
    /\ Handled("md_followups")
    /\ env.MD_TELEGRAM_USER_ID = 2 /\ ctx.from = 1
    /\ replies = <<[msg |-> Unauthorized, by |-> "handler", ok |-> TRUE]>>
    /\ calls = <<[fn |-> "upsertPatientByTelegramId", args |-> [telegram_user_id |-> 1]]>>

\* C4: GET /api/md/brief and GET /api/md/followups return data only to a
\* requester identified as the administrator; every other request gets the
\* fixed 403 and no storage function is called for it.
C4_HttpAdminOnly ==
    http.stage = "served" =>
        IF env.MD_TELEGRAM_USER_ID # NoAdmin /\ http.apiKey = env.MD_TELEGRAM_USER_ID
        THEN http.status = 200
        ELSE http.status = 403 /\ http.body = Forbidden /\ calls = <<>>

\* C5: once /optout has set a user's stored consent to false it stays false
\* until that user sends /optin: no step of any other update sets it back to
\* true, and no later update of that user is logged while it is false.
C5_OptOutPersists ==
    [][\A u \in Users :
         (patients[u] # NoRecord /\ ~patients[u].consent_opt_in) =>
            /\ patients'[u].consent_opt_in => (ctx'.from = u /\ route(ctx'.message) = "optin")
            /\ (Len(chat_logs') > Len(chat_logs) /\ ctx.from = u) => ctx.handler = "optout"]_vars


\* the appointment data of the booking at hand, field by field
C6_Expected(rawRequest) ==
    [patient_id |-> PatientId(ctx.from),
     full_name |-> validateBookingFormat(Sanitized).name,
     preferred_datetime |-> validateBookingFormat(Sanitized).timeSlot,
     telegram_user_id |-> ctx.from,
     telegram_chat_id |-> ctx.chat,
     raw_request |-> rawRequest]

C6_Row(rawRequest) ==
    [patient_id |-> PatientId(ctx.from),
     full_name |-> validateBookingFormat(Sanitized).name,
     preferred_datetime |-> validateBookingFormat(Sanitized).timeSlot,
     status |-> "pending",
     telegram_user_id |-> ctx.from,
     telegram_chat_id |-> ctx.chat,
     raw_request |-> rawRequest]

\* C6 as stated: for every valid booking submission createAppointment is
\* called exactly once with the parsed name, the parsed time slot, the text
\* of the message, the sender ID and the chat ID, and the appointment is
\* written with status 'pending'.
C6_AsStated ==
    (Handled("text") /\ ctx.branch = "booking") =>
        /\ CallsOf("createAppointment") =
               <<[fn |-> "createAppointment", args |-> C6_Expected(ctx.message.text)]>>
        /\ appointments = <<C6_Row(ctx.message.text)>>

\* C6: for a valid booking submission whose context carries a patient record
\* createAppointment is called exactly once, with the name and time slot
\* parsed from the sanitized text, the sanitized text, the patient ID, the
\* sender ID and the chat ID; with no patient record it is not called; the
\* only row the call can write is that appointment with status 'pending'.
C6_BookingCreatesAppointment ==
    (Handled("text") /\ ctx.branch = "booking") =>
        /\ CallsOf("createAppointment") =
               IF ctx.patient # NoRecord
               THEN <<[fn |-> "createAppointment", args |-> C6_Expected(Sanitized)]>>
               ELSE <<>>
        /\ appointments \in {<<>>, <<C6_Row(Sanitized)>>}
        /\ appointments # <<>> => ctx.patient # NoRecord

C6_Witness ==
    /\ Handled("text") /\ ctx.branch = "booking"
    /\ ctx.message.text = Chars("Ada Lovelace, Friday 3pm")
    /\ ctx.from = 2 /\ ctx.chat = GroupChat
    /\ Len(CallsOf("createAppointment")) = 1
    /\ Len(appointments) = 1
    /\ appointments[1].status = "pending"
    /\ appointments[1].full_name = Chars("Ada Lovelace")
    /\ appointments[1].preferred_datetime = Chars("Friday 3pm")

\* C7: for every valid booking submission the handler sends the booking
\* confirmation, and only it, whether createAppointment succeeded, returned
\* an error, threw, or was not called because storage is not configured; no
\* error reply takes its place unless the send itself fails.
C7_ConfirmationRegardless ==
    (Handled("text") /\ ctx.branch = "booking") =>
        /\ HandlerMessages = <<getBookingReply(Sanitized)>>
        /\ ctx.sendFailures = 0 => (Len(replies) = 1 /\ replies[1].ok)

C7_Witness ==
    /\ Handled("text") /\ ctx.branch = "booking"
    /\ env.supabase /\ ctx.patient # NoRecord
    /\ Len(CallsOf("createAppointment")) = 1
    /\ appointments = <<>>
    /\ replies = <<[msg |-> getBookingReply(Sanitized), by |-> "handler", ok |-> TRUE]>>

\* C8 read by positions: the part before the first comma and the part between
\* it and the next comma (or the end), each stripped of the white space
\* around it
C8_HasComma(t) == \E i \in 1..Len(t) : t[i] = ","

C8_FirstComma(t) == CHOOSE i \in 1..Len(t) : t[i] = "," /\ \A j \in 1..(i - 1) : t[j] # ","

C8_Strip(p) ==
    LET keep == {i \in 1..Len(p) : p[i] \notin WhiteSpace}
    IN  IF keep = {} THEN <<>>
        ELSE SubSeq(p, CHOOSE i \in keep : \A j \in keep : i <= j,
                       CHOOSE i \in keep : \A j \in keep : i >= j)

C8_Expected(t) ==
    IF ~C8_HasComma(t) THEN Invalid
    ELSE LET rest == SubSeq(t, C8_FirstComma(t) + 1, Len(t))
             first == C8_Strip(SubSeq(t, 1, C8_FirstComma(t) - 1))
             second == C8_Strip(IF C8_HasComma(rest)
                                THEN SubSeq(rest, 1, C8_FirstComma(rest) - 1)
                                ELSE rest)
         IN  IF Len(first) > 2 /\ Len(second) > 2
             THEN [valid |-> TRUE, name |-> first, timeSlot |-> second]
             ELSE Invalid

\* C8: validateBookingFormat reports a text valid exactly when it has at
\* least two comma-separated parts whose first and second, trimmed, are each
\* longer than two characters; the name and time slot are those trimmed
\* parts, and parts after the second change nothing ('A, B' is invalid,
\* 'Ada Lovelace, Friday 3pm' is valid).
C8_ValidateBookingFormat ==
    (ret # NoRecord /\ ret.fn = "validateBookingFormat") =>
        /\ ret.value = C8_Expected(arg)
        /\ arg = Chars("A, B") => ~ret.value.valid
        /\ arg = Chars("Ada Lovelace, Friday 3pm") =>
               ret.value = [valid |-> TRUE, name |-> Chars("Ada Lovelace"),
                            timeSlot |-> Chars("Friday 3pm")]

C8_Witness ==
    /\ ret # NoRecord /\ ret.fn = "validateBookingFormat"
    /\ arg = Chars("John Doe, Friday 3pm, thanks")
    /\ ret.value = [valid |-> TRUE, name |-> Chars("John Doe"), timeSlot |-> Chars("Friday 3pm")]

\* C9 as stated: a text that looks like a booking and fails validation gets
\* the format-correction message, and neither createAppointment nor the AI
\* is called.
C9_AsStated ==
    (Handled("text") /\ looksLikeBooking(Sanitized) /\ ~validateBookingFormat(Sanitized).valid) =>
        /\ HandlerMessages = <<Fixed("getInvalidBookingMessage")>>
        /\ CallsOf("createAppointment") = <<>>
        /\ AiCalls = <<>>

\* C9: a text that looks like a booking and fails validation, and that no
\* earlier branch takes (no emergency keyword, no owner name, not a menu
\* shortcut), gets the format-correction message, and neither
\* createAppointment nor the AI is called.
C9_InvalidBookingCorrected ==
    (/\ Handled("text")
     /\ looksLikeBooking(Sanitized) /\ ~validateBookingFormat(Sanitized).valid
     /\ ~containsEmergencyKeywords(Sanitized)
     /\ ~ownerRegexTest(Sanitized)
     /\ lowerText(Sanitized) \notin bookingShortcuts \cup faqShortcuts \cup staffShortcuts) =>
        /\ HandlerMessages = <<Fixed("getInvalidBookingMessage")>>
        /\ CallsOf("createAppointment") = <<>>
        /\ AiCalls = <<>>

C9_Witness ==
    /\ Handled("text")
    /\ ctx.message.text = Chars("A, B")
    /\ ctx.branch = "invalidBooking"
    /\ env.gemini /\ ctx.patient # NoRecord
    /\ replies = <<[msg |-> Fixed("getInvalidBookingMessage"), by |-> "handler", ok |-> TRUE]>>

\* C10 as stated: the confirmation of a valid booking contains the text the
\* user sent, character for character.
C10_AsStated ==
    (Handled("text") /\ ctx.branch = "booking") =>
        \E i \in 1..Len(HandlerMessages) :
            /\ HandlerMessages[i].name = "getBookingReply"
            /\ includes(HandlerMessages[i].text, ctx.message.text)

\* C10: the confirmation of a valid booking contains the sanitized text,
\* character for character; that is the text the user sent whenever
\* sanitizing leaves it unchanged.
C10_ConfirmationEchoesSanitized ==
    (Handled("text") /\ ctx.branch = "booking") =>
        \E i \in 1..Len(HandlerMessages) :
            /\ HandlerMessages[i].name = "getBookingReply"
            /\ includes(HandlerMessages[i].text, Chars("Request: \"") \o Sanitized \o Chars("\""))

C10_Witness ==
    /\ Handled("text") /\ ctx.branch = "booking"
    /\ ctx.message.text = Chars("Ada <b>Lovelace</b>, Friday 3pm")
    /\ Sanitized = Chars("Ada bLovelace/b, Friday 3pm")
    /\ replies # <<>> /\ replies[1].ok
    /\ includes(replies[1].msg.text, Chars("Request: \"Ada bLovelace/b, Friday 3pm\""))


\* the calls the middleware make around a handler
MiddlewareCalls == {"upsertPatientByTelegramId", "logChat"}

HandlerCalls == SelectSeq(calls, LAMBDA k : k.fn \notin MiddlewareCalls)

\* a non-empty text that none of the handler's rules takes
C11_NoRule(text) ==
    /\ text # <<>>
    /\ ~containsEmergencyKeywords(text)
    /\ ~ownerRegexTest(text)
    /\ toLowerCase(text) \notin bookingShortcuts \cup faqShortcuts \cup staffShortcuts
    /\ ~looksLikeBooking(text)
    /\ ~hasHealthKeywords(text)

\* C11 as stated: a text that matches no rule is answered with the generic
\* guided-options message, and the text handler makes no storage call and no
\* AI call for it.
C11_AsStated ==
    (Handled("text") /\ C11_NoRule(Sanitized)) =>
        /\ HandlerMessages = <<Fixed("guidedOptions")>>
        /\ HandlerCalls = <<>>

\* C11: a text that matches no rule is handed to llmTextReply exactly once
\* and answered with what it returns (the generated text cut to 400
\* characters, or one of its three fixed strings; the model is asked only
\* when the AI key is configured); the guided-options message follows only
\* when sending that answer throws; the handler makes no storage call.
C11_FallbackAsksAi ==
    (Handled("text") /\ C11_NoRule(Sanitized)) =>
        /\ CallsOf("llmTextReply") = <<[fn |-> "llmTextReply", args |-> [userText |-> Sanitized]]>>
        /\ Len(CallsOf("generateContent")) = IF env.gemini THEN 1 ELSE 0
        /\ \A i \in 1..Len(HandlerCalls) : HandlerCalls[i].fn \in {"llmTextReply", "generateContent"}
        /\ HandlerMessages # <<>>
        /\ HandlerMessages[1].name \in
               IF env.gemini
               THEN {"llmTextReply", "llmTextReply:trouble", "llmTextReply:staffWillAssist"}
               ELSE {"llmTextReply:unable"}
        /\ Len(HandlerMessages[1].text) <= 400
        /\ IF replies[1].ok THEN Len(HandlerMessages) = 1
           ELSE HandlerMessages = <<HandlerMessages[1], Fixed("guidedOptions")>>

C11_Witness ==
    /\ Handled("text")
    /\ ctx.message.text = Chars("hello there")
    /\ env.gemini
    /\ Len(CallsOf("generateContent")) = 1
    /\ replies = <<[msg |-> [name |-> "llmTextReply", text |-> AiText], by |-> "handler", ok |-> TRUE]>>

\* the reply that belongs to a branch of the text handler
C12_BranchMessage(b, msg) ==
    CASE b = "emergency" -> msg = Fixed("getEmergencyResponse")
      [] b = "owner" -> msg = Fixed("getOwnerProfile")
      [] b = "bookingInstructions" -> msg = Fixed("getBookingInstructions")
      [] b = "faq" -> msg = Fixed("getFAQMenu")
      [] b = "staff" -> msg = Fixed("getStaffConnectionMessage")
      [] b = "booking" -> msg.name = "getBookingReply"
      [] b = "invalidBooking" -> msg = Fixed("getInvalidBookingMessage")
      [] b = "health" -> msg = Fixed("getHealthResponse")
      [] b = "ai" -> msg.name \in {"llmTextReply", "llmTextReply:trouble",
                                   "llmTextReply:staffWillAssist", "llmTextReply:unable"}
      [] OTHER -> FALSE

\* C12: for every message whose sanitized text is non-empty the text handler
\* takes exactly one of its nine branches and, when sending succeeds, sends
\* exactly one reply, the one of that branch: no text is left without a reply
\* and none gets two.
C12_ExactlyOneReply ==
    (Handled("text") /\ Sanitized # <<>>) =>
        /\ ctx.branch \in {"emergency", "owner", "bookingInstructions", "faq", "staff",
                           "booking", "invalidBooking", "health", "ai"}
        /\ ctx.sendFailures = 0 =>
               /\ Len(replies) = 1
               /\ replies[1].ok /\ replies[1].by = "handler"
               /\ C12_BranchMessage(ctx.branch, replies[1].msg)

C12_Witness ==
    /\ Handled("text")
    /\ ctx.message.text = Chars("I feel sick")
    /\ ctx.branch = "health"
    /\ ctx.sendFailures = 0
    /\ replies = <<[msg |-> Fixed("getHealthResponse"), by |-> "handler", ok |-> TRUE]>>

\* the text as typed, trimmed and lower-cased
C13_Typed == toLowerCase(trim(ctx.message.text))

\* C13: a text with no emergency keyword and no owner-name match that,
\* trimmed and lower-cased, is one of '1', 'book', 'booking', 'appointment'
\* gets the booking instructions; one of '2', 'faq', 'faqs', 'info',
\* 'information' the FAQ menu; one of '3', 'staff', 'agent', 'human',
\* 'person' the staff-connection message; letter case changes nothing, and
\* no appointment is created.
C13_Shortcuts ==
    (/\ Handled("text")
     /\ ~containsEmergencyKeywords(Sanitized) /\ ~ownerRegexTest(Sanitized)
     /\ C13_Typed \in {Chars("1"), Chars("book"), Chars("booking"), Chars("appointment"),
                       Chars("2"), Chars("faq"), Chars("faqs"), Chars("info"),
                       Chars("information"),
                       Chars("3"), Chars("staff"), Chars("agent"), Chars("human"),
                       Chars("person")}) =>
        /\ HandlerMessages =
               IF C13_Typed \in {Chars("1"), Chars("book"), Chars("booking"), Chars("appointment")}
               THEN <<Fixed("getBookingInstructions")>>
               ELSE IF C13_Typed \in {Chars("2"), Chars("faq"), Chars("faqs"), Chars("info"),
                                      Chars("information")}
               THEN <<Fixed("getFAQMenu")>>
               ELSE <<Fixed("getStaffConnectionMessage")>>
        /\ CallsOf("createAppointment") = <<>>
        /\ appointments = <<>>

C13_Witness ==
    /\ Handled("text")
    /\ ctx.message.text = Chars("BOOKING")
    /\ ctx.branch = "bookingInstructions"
    /\ ctx.patient # NoRecord
    /\ replies = <<[msg |-> Fixed("getBookingInstructions"), by |-> "handler", ok |-> TRUE]>>

\* C14: when the sanitized text of a message is empty the text handler
\* sends no reply and makes no storage call and no AI call.
C14_EmptyTextSilent ==
    (Handled("text") /\ Sanitized = <<>>) =>
        /\ ctx.branch = "empty"
        /\ replies = <<>>
        /\ HandlerCalls = <<>>

C14_Witness ==
    /\ ctx.stage = "handled" /\ ctx.handler = "text"
    /\ ctx.message.text = Chars("<>")
    /\ ctx.patient # NoRecord /\ env.gemini
    /\ replies = <<>>
    /\ calls = <<[fn |-> "upsertPatientByTelegramId", args |-> [telegram_user_id |-> ctx.from]]>>


\* the mode that belongs to a media kind
C15_KindMode(kind) ==
    CASE kind = "photo" -> "image"
      [] kind \in {"voice", "audio"} -> "audio"
      [] kind \in {"video", "video_note"} -> "video"
      [] OTHER -> "document"

\* the content type handleMedia hands on for the message at hand
C15_ContentType ==
    IF ctx.message.type = "photo" THEN Chars("image/jpeg")
    ELSE IF ctx.message.type = "video_note" THEN Chars("video/mp4")
    ELSE IF ctx.message.mime_type # <<>> THEN ctx.message.mime_type
    ELSE CASE ctx.message.type = "voice" -> Chars("audio/ogg")
           [] ctx.message.type = "video" -> Chars("video/mp4")
           [] ctx.message.type = "audio" -> Chars("audio/mpeg")
           [] OTHER -> Chars("application/octet-stream")

C15_ModeOf(contentType) ==
    IF SubSeq(contentType, 1, 6) = Chars("image/") THEN "image"
    ELSE IF SubSeq(contentType, 1, 6) = Chars("audio/") THEN "audio"
    ELSE IF SubSeq(contentType, 1, 6) = Chars("video/") THEN "video"
    ELSE IF contentType = Chars("application/pdf") \/ includes(contentType, Chars("document"))
         THEN "document"
    ELSE "none"

\* the file has been fetched and handed to the AI layer, whose client is configured
C15_Analysed ==
    /\ ctx.handler \in MediaTypes /\ Handled(ctx.handler)
    /\ CallsOf("llmAnalyzeMedia") # <<>>
    /\ env.gemini

\* C15 as stated: each media kind is analysed in the mode that belongs to
\* it (photo: image description; voice, audio: transcription; video, video
\* note: video summary; document: document summary), whatever content type
\* the message declares.
C15_AsStated ==
    C15_Analysed =>
        /\ Len(CallsOf("generateContent")) = 1
        /\ CallsOf("generateContent")[1].args.mode = C15_KindMode(ctx.handler)

\* C15: the mode is chosen by the content type handed to llmAnalyzeMedia:
\* image/* image description, audio/* transcription, video/* video summary,
\* application/pdf or a type containing 'document' document summary, any
\* other type no analysis.  A photo is always handed image/jpeg and a video
\* note video/mp4, so these two are analysed in the mode of their kind; a
\* voice, audio, video or document is handed the type its message declares
\* (audio/ogg, audio/mpeg, video/mp4, application/octet-stream when it
\* declares none) and is analysed in the mode of that type.
C15_ModeByContentType ==
    C15_Analysed =>
        /\ CallsOf("generateContent") =
               IF C15_ModeOf(C15_ContentType) = "none" THEN <<>>
               ELSE <<[fn |-> "generateContent",
                       args |-> [mode |-> C15_ModeOf(C15_ContentType),
                                 mimeType |-> C15_ContentType]]>>
        /\ ctx.handler \in {"photo", "video_note"} =>
               C15_ModeOf(C15_ContentType) = C15_KindMode(ctx.handler)

C15_Witness ==
    /\ ctx.handler = "document" /\ Handled("document")
    /\ ctx.message.mime_type = Chars("image/png")
    /\ env.gemini
    /\ CallsOf("generateContent") =
           <<[fn |-> "generateContent", args |-> [mode |-> "image", mimeType |-> Chars("image/png")]]>>
    /\ replies # <<>> /\ replies[1].ok /\ replies[1].msg.name = "llmAnalyzeMedia"


\* generateContent was called for the media at hand and failed
C16_AiCallFailed ==
    /\ ret # NoRecord /\ ret.fn = "llmAnalyzeMedia"
    /\ CallsOf("generateContent") # <<>>
    /\ ret.outcome = "throw"

\* the fallback string that belongs to a content type
C16_Fallback(contentType, filename) ==
    CASE C15_ModeOf(contentType) = "image" ->
            <<"U+1F4F8">> \o Chars(" Image received. Our medical staff will review it during your appointment.")
      [] C15_ModeOf(contentType) = "audio" ->
            <<"U+1F3B5">> \o Chars(" Audio message received. Our staff will listen to it and respond accordingly.")
      [] C15_ModeOf(contentType) = "video" ->
            <<"U+1F3A5">> \o Chars(" Video received. Our team will review it as part of your consultation.")
      [] contentType = Chars("application/pdf") ->
            <<"U+1F4C4">> \o Chars(" Document received. Our staff will review it and discuss during your appointment.")
      [] OTHER ->
            Chars("File received (") \o (IF filename = <<>> THEN Chars("unknown type") ELSE filename)
            \o Chars("). Our team will review it manually.")

\* C16: when the AI call fails llmAnalyzeMedia does not throw: it returns
\* the fixed fallback string of the content type (image, audio, video, pdf,
\* or other), and that string contains no text of the error.
C16_MediaFallback ==
    C16_AiCallFailed =>
        /\ ~ret.threw
        /\ ret.value.text = C16_Fallback(arg.contentType, arg.filename)
        /\ ~includes(ret.value.text, AiError)

C16_Witness ==
    /\ C16_AiCallFailed
    /\ arg.contentType = Chars("image/png")
    /\ ~ret.threw
    /\ ret.value.text =
           <<"U+1F4F8">> \o Chars(" Image received. Our medical staff will review it during your appointment.")

\* C17: for a content type that is none of image/*, audio/*, video/*,
\* application/pdf or a type containing 'document', llmAnalyzeMedia makes no
\* AI call and returns a fixed manual-review message: 'File received: <file
\* name, or Unknown file>. Our staff will review this file type manually.'
\* when the AI client is configured, and the 'Media analysis is currently
\* unavailable ... manual review' message it returns for every content type
\* when the client is not configured.
C17_UnknownTypeNoAiCall ==
    (/\ ret # NoRecord /\ ret.fn = "llmAnalyzeMedia"
     /\ C15_ModeOf(arg.contentType) = "none") =>
        /\ CallsOf("generateContent") = <<>>
        /\ ~ret.threw
        /\ ret.value.text =
               IF env.gemini
               THEN Chars("File received: ")
                    \o (IF arg.filename = <<>> THEN Chars("Unknown file") ELSE arg.filename)
                    \o Chars(". Our staff will review this file type manually.")
               ELSE Chars("Media analysis is currently unavailable. Please contact our staff for manual review.")

C17_Witness ==
    /\ ret # NoRecord /\ ret.fn = "llmAnalyzeMedia"
    /\ arg = [contentType |-> Chars("text/plain"), filename |-> Chars("scan.bin")]
    /\ env.gemini
    /\ ret.value.text = Chars("File received: scan.bin. Our staff will review this file type manually.")
    /\ calls = <<[fn |-> "llmAnalyzeMedia", args |-> arg]>>


\* getDailyBrief has answered
C18_Answered == ret # NoRecord /\ ret.fn = "getDailyBrief"

\* C18: getDailyBrief never propagates a failure: with no storage client,
\* with no records, or with any of its four count queries returning an
\* error or throwing, it returns a {chats, bookings, cancels, faqs} record
\* of non-negative counts in which every count whose query failed is 0.
C18_DailyBriefFailSoft ==
    C18_Answered =>
        /\ ~ret.threw
        /\ ret.value \in [chats : Nat, bookings : Nat, cancels : Nat, faqs : Nat]
        /\ (~env.supabase \/ ret.input.outcome[1] # "ok") => ret.value.chats = 0
        /\ (~env.supabase \/ ret.input.outcome[2] # "ok") => ret.value.bookings = 0
        /\ (~env.supabase \/ ret.input.outcome[3] # "ok") => ret.value.cancels = 0
        /\ (~env.supabase \/ ret.input.outcome[4] # "ok") => ret.value.faqs = 0
        /\ (chat_logs = <<>> /\ appointments = <<>>) =>
               ret.value = [chats |-> 0, bookings |-> 0, cancels |-> 0, faqs |-> 0]

C18_Witness ==
    /\ C18_Answered
    /\ env.supabase
    /\ ret.input.outcome = <<"ok", "error", "ok", "ok">>
    /\ Len(chat_logs) = 2
    /\ Len(appointments) = 2 /\ appointments[1].status = "pending"
    /\ appointments[2].status = "cancelled"
    /\ ret.value.chats = 2 /\ ret.value.bookings = 0 /\ ret.value.cancels = 1

\* C19: the faqs count returned by getDailyBrief equals the number of
\* chat-log entries of the day whose message text contains 'faq' or
\* 'question', case-insensitively.
C19_FaqsCount ==
    (C18_Answered /\ env.supabase /\ \A i \in 1..4 : ret.input.outcome[i] = "ok") =>
        ret.value.faqs =
            Cardinality({i \in 1..Len(chat_logs) :
                            \/ includes(toLowerCase(chat_logs[i].message_text), Chars("faq"))
                            \/ includes(toLowerCase(chat_logs[i].message_text), Chars("question"))})

\* the positions, in creation order, of the appointments that await a follow-up
C20_Eligible == {i \in 1..Len(appointments) : appointments[i].status \in {"pending", "rescheduled"}}

\* the k-th oldest of them
C20_Oldest(k) == CHOOSE i \in C20_Eligible : Cardinality({j \in C20_Eligible : j < i}) = k - 1

C20_Limit == IF ret.input.given THEN ret.input.limit ELSE 20

\* C20: getFollowupAppointments(limit) returns only appointments whose
\* status is 'pending' or 'rescheduled', in ascending order of creation
\* time, and at most limit of them (20 when no limit is given): when the
\* query succeeds the result is the limit oldest such appointments.
C20_FollowupsOldestFirst ==
    (ret # NoRecord /\ ret.fn = "getFollowupAppointments") =>
        /\ ~ret.threw
        /\ Len(ret.value) <= C20_Limit
        /\ \A k \in 1..Len(ret.value) : ret.value[k] = appointments[C20_Oldest(k)]
        /\ (env.supabase /\ ret.input.outcome = "ok") =>
               Len(ret.value) = IF Cardinality(C20_Eligible) < C20_Limit
                                THEN Cardinality(C20_Eligible) ELSE C20_Limit

C20_Witness ==
    /\ ret # NoRecord /\ ret.fn = "getFollowupAppointments"
    /\ env.supabase /\ ret.input.outcome = "ok"
    /\ ret.input.given /\ ret.input.limit = 1
    /\ appointments = <<StoredAppointment(Chars("John Doe"), "rescheduled"),
                        StoredAppointment(Chars("Ada Lovelace"), "pending")>>
    /\ ret.value = <<StoredAppointment(Chars("John Doe"), "rescheduled")>>

\* C21 as stated: with a required variable missing the process exits in production
\* mode, and in development mode it keeps running, whichever variable is missing
C21_Missing == missing(arg) # {}

C21_Settled == ret.pc \in {"exit", "running"}

C21_AsStated ==
    (C21_Settled /\ C21_Missing) =>
        IF arg.NODE_ENV = "production" THEN ret.exited ELSE ~ret.exited

\* C21: with a required variable missing, a process in production mode exits (before
\* any initializer ran); outside production mode a missing storage URL, storage key
\* or AI key is a warning and the process runs on without that client, but a missing
\* Telegram token still makes it exit
C21_StartupByMode ==
    (C21_Settled /\ C21_Missing) =>
        IF arg.NODE_ENV = "production"
        THEN ret.exited /\ ret.warnings = {} /\ ~ret.supabase /\ ~ret.gemini
        ELSE /\ ret.exited <=> ~arg.TELEGRAM_BOT_TOKEN
             /\ ret.supabase <=> (arg.SUPABASE_URL /\ arg.SUPABASE_SERVICE_ROLE_KEY)
             /\ ret.gemini <=> arg.GEMINI_API_KEY
             /\ ("Supabase not configured - using mock mode" \in ret.warnings) <=> ~ret.supabase
             /\ ("Gemini API key not configured - using mock responses" \in ret.warnings)
                    <=> ~ret.gemini

C21_Witness ==
    /\ ret.pc = "running"
    /\ arg.NODE_ENV = "development"
    /\ ~arg.GEMINI_API_KEY /\ ~arg.SUPABASE_URL
    /\ Cardinality(ret.warnings) = 2

\* C22: for every update that carries a message from a user with a patient record and
\* consent, the logging middleware makes exactly one logChat call for that message,
\* and makes it last, after the handler of the update has finished
C22_OneLogAfterHandler ==
    (ctx.stage = "done" /\ ctx.patient # NoRecord /\ ctx.consentOptIn) =>
        /\ Len(CallsOf("logChat")) = 1
        /\ calls[Len(calls)].fn = "logChat"
        /\ calls[Len(calls)].args.message_text = ctx.message.text

\* C23: no reply attempt of an update contains the message of an error; the reply of
\* safeHandler's catch is getErrorMessage(), the reply of handleMedia's catch names
\* only the kind of media, and the AI fallbacks are the fixed texts chosen by content
\* type and file name, whatever the error was
C23_NoErrorTextInReplies ==
    \A i \in 1..Len(replies) :
        LET m == replies[i].msg
        IN  /\ \A e \in Errors : ~includes(m.text, e)
            /\ replies[i].by = "safeHandler" => m = Fixed("getErrorMessage")
            /\ m.name = "couldNotProcess" => m = CouldNotProcess(ctx.handler)
            /\ m.name = "llmAnalyzeMedia:fallback" =>
                   \E f \in {Chars("image_file"), Chars("audio_message"), Chars("video_file"),
                              fileName(ctx.message, ctx.handler)} :
                       m = mediaFallback(mimeType(ctx.message, ctx.handler), f, <<>>)

C23_Witness ==
    /\ Handled("voice")
    /\ ctx.sendFailures = 1
    /\ Len(replies) = 2
    /\ replies[1].msg.name = "llmAnalyzeMedia:fallback" /\ ~replies[1].ok
    /\ replies[2] = [msg |-> CouldNotProcess("voice"), by |-> "handler", ok |-> TRUE]

\* C24: while one update (or request) is handled no storage or AI operation is called
\* twice, whether or not its first call failed; a booking message leaves at most one
\* appointment row and a media message makes at most one generateContent request
C24_EachOperationAtMostOnce ==
    /\ \A i \in 1..Len(calls), j \in 1..Len(calls) : calls[i].fn = calls[j].fn => i = j
    /\ Len(appointments) <= 1
    /\ Len(chat_logs) <= 1

\* a booking whose insert failed: one createAppointment call, no row, and the
\* confirmation sent all the same
C24_Witness ==
    /\ Handled("text")
    /\ ctx.branch = "booking"
    /\ Len(CallsOf("createAppointment")) = 1
    /\ appointments = <<>>
    /\ env.supabase
    /\ Len(replies) = 1 /\ replies[1].ok

\* C25: with an administrator configured and the storage query answered, the response
\* of GET /api/appointments/due-today holds every pending appointment of the table
\* whose preferred_datetime contains today's date, however many pending rows there
\* are, and count is the number of appointments in the response
C25_Due == SelectSeq(appointments, LAMBDA a : a.status = "pending" /\ isDueToday(a))

C25_DueTodayReturnsAll ==
    (/\ http.stage = "served"
     /\ http.route = "/api/appointments/due-today"
     /\ env.MD_TELEGRAM_USER_ID # NoAdmin
     /\ env.supabase
     /\ ret = [outcome |-> "ok"]) =>
        /\ http.status = 200
        /\ Len(http.body.appointments) = Len(C25_Due)
        /\ \A i \in 1..Len(C25_Due) :
               \E j \in 1..Len(http.body.appointments) : http.body.appointments[j] = C25_Due[i]
        /\ http.body.count = Len(http.body.appointments)

\* C26: a text whose sanitized form holds the owner's name, in any letter case, and no
\* emergency keyword takes the owner branch: the handler's only reply is the owner
\* profile, it calls neither storage nor the AI and no appointment is created, also
\* when the text is a valid 'Name, time' booking
C26_NamesOwner == includes(toLowerCase(Sanitized), toLowerCase(OWNER_NAME))

C26_OwnerBeforeBooking ==
    (Handled("text") /\ C26_NamesOwner /\ ~containsEmergencyKeywords(Sanitized)) =>
        /\ ctx.branch = "owner"
        /\ HandlerMessages = <<Fixed("getOwnerProfile")>>
        /\ HandlerCalls = <<>>
        /\ appointments = <<>>

C26_Witness ==
    /\ Handled("text")
    /\ C26_NamesOwner
    /\ validateBookingFormat(Sanitized).valid
    /\ ctx.patient # NoRecord
    /\ replies = <<[msg |-> Fixed("getOwnerProfile"), by |-> "handler", ok |-> TRUE]>>

\* an /md_brief or /md_followups update from a sender who is not the administrator
C27_Refused ==
    /\ Handled("md_brief") \/ Handled("md_followups")
    /\ ctx.from # NoUser
    /\ ~(env.MD_TELEGRAM_USER_ID # NoAdmin /\ ctx.from = env.MD_TELEGRAM_USER_ID)

C27_Upsert == [fn |-> "upsertPatientByTelegramId", args |-> [telegram_user_id |-> ctx.from]]

\* C27 as stated: no storage call and no AI call is made between the arrival of the
\* update and the unauthorized reply
C27_AsStated ==
    (C27_Refused /\ ctx.stage = "handled") => calls = <<>>

\* C27: for an /md_brief or /md_followups update from a sender who is not the
\* administrator the handler itself makes no storage call and no AI call; the one call
\* made before the unauthorized reply is the identification middleware's
\* upsertPatientByTelegramId for the sender, and the only call after it is the logging
\* middleware's logChat
C27_NoCallsByRefusedHandler ==
    C27_Refused =>
        /\ HandlerCalls = <<>>
        /\ AiCalls = <<>>
        /\ HandlerMessages[1] = Unauthorized
        /\ ctx.stage = "handled" => calls = <<C27_Upsert>>
        /\ ctx.stage = "done" =>
               /\ Len(calls) \in {1, 2}
               /\ calls[1] = C27_Upsert
               /\ Len(calls) = 2 => calls[2].fn = "logChat"

C27_Witness ==
    /\ Handled("md_brief")
    /\ ctx.stage = "done"
    /\ env.MD_TELEGRAM_USER_ID = 1 /\ ctx.from = 2
    /\ replies = <<[msg |-> Unauthorized, by |-> "handler", ok |-> TRUE]>>
    /\ Len(calls) = 2 /\ calls[2].fn = "logChat"

\* C28: the text handler takes the health branch or the AI fallback only for a
\* (sanitized) text with no comma and none of 'book', 'appointment', 'schedule',
\* 'visit' in it; a text with a comma or one of these words that is no emergency, does
\* not name the owner and is no shortcut is handled as a booking submission and is
\* answered first with the booking confirmation or the format-correction message
C28_HasComma == \E i \in 1..Len(Sanitized) : Sanitized[i] = ","

C28_HasKeyword ==
    \E k \in {Chars("book"), Chars("appointment"), Chars("schedule"), Chars("visit")} :
        includes(toLowerCase(Sanitized), k)

C28_Submission ==
    /\ C28_HasComma \/ C28_HasKeyword
    /\ ~containsEmergencyKeywords(Sanitized)
    /\ ~ownerRegexTest(Sanitized)
    /\ toLowerCase(Sanitized) \notin bookingShortcuts \cup faqShortcuts \cup staffShortcuts

C28_HealthAndAiOnlyWithoutBookingMarks ==
    Handled("text") =>
        /\ ctx.branch \in {"health", "ai"} => ~C28_HasComma /\ ~C28_HasKeyword
        /\ C28_Submission =>
               /\ ctx.branch \in {"booking", "invalidBooking"}
               /\ HandlerMessages[1].name \in {"getBookingReply", "getInvalidBookingMessage"}

C28_Witness ==
    /\ Handled("text")
    /\ Sanitized = Chars("I want to schedule")
    /\ ~C28_HasComma
    /\ replies = <<[msg |-> Fixed("getInvalidBookingMessage"), by |-> "handler", ok |-> TRUE]>>

\* C29: a (sanitized) text that contains 'help', 'urgent' or 'emergency', in any letter
\* case, is answered with the emergency response and never with the health response;
\* a text that gets the health response holds one of the other health keywords
C29_Shared == {Chars("help"), Chars("urgent"), Chars("emergency")}

C29_HasShared == \E k \in C29_Shared : includes(toLowerCase(Sanitized), k)

C29_SharedKeywordsAreEmergencies ==
    Handled("text") =>
        /\ C29_HasShared =>
               /\ ctx.branch = "emergency"
               /\ HandlerMessages[1] = Fixed("getEmergencyResponse")
               /\ \A i \in 1..Len(replies) : replies[i].msg # Fixed("getHealthResponse")
        /\ ctx.branch = "health" =>
               \E k \in 1..Len(healthKeywords) :
                   /\ healthKeywords[k] \notin C29_Shared
                   /\ includes(toLowerCase(Sanitized), healthKeywords[k])
        /\ \A k \in C29_Shared :
               /\ \E i \in 1..Len(healthKeywords) : healthKeywords[i] = k
               /\ \E i \in 1..Len(emergencyKeywords) : emergencyKeywords[i] = k

C29_Witness ==
    /\ Handled("text")
    /\ Sanitized = Chars("helping")
    /\ hasHealthKeywords(Sanitized)
    /\ replies = <<[msg |-> Fixed("getEmergencyResponse"), by |-> "handler", ok |-> TRUE]>>

\* the reply attempts safeHandler's catch made for this update
C30_ErrorReplies == SelectSeq(replies, LAMBDA r : r.by = "safeHandler")

\* the handler of this update ended in an exception: its last ctx.reply failed, or it
\* read ctx.from.id of an update without a sender
C30_HandlerThrew ==
    LET own == SelectSeq(replies, LAMBDA r : r.by = "handler")
    IN  \/ own # <<>> /\ ~own[Len(own)].ok
        \/ /\ ctx.from = NoUser
           /\ ctx.handler \in {"whoami", "optout", "optin", "md_brief", "md_followups"}

\* C30: no exception leaves a callback wrapped by safeHandler, so the chain of an update
\* never ends in a rejection; for a handler that ended in an exception there is exactly
\* one attempt to send getErrorMessage(), made after the handler's own replies, and for
\* a handler that returned there is none; when that attempt fails too nothing more is
\* sent and the chain goes on
C30_SafeHandlerContainsExceptions ==
    /\ ctx.stage # "crashed"
    /\ ctx.stage \in {"handled", "done"} =>
           /\ Len(C30_ErrorReplies) = (IF C30_HandlerThrew THEN 1 ELSE 0)
           /\ C30_HandlerThrew =>
                  /\ replies[Len(replies)] = C30_ErrorReplies[1]
                  /\ C30_ErrorReplies[1].msg = Fixed("getErrorMessage")

\* the handler's reply failed and so did the error message: the update is settled
C30_Witness ==
    /\ ctx.stage = "done"
    /\ ctx.handler = "start"
    /\ Len(replies) = 2
    /\ replies[1].by = "handler" /\ ~replies[1].ok
    /\ replies[2] = [msg |-> Fixed("getErrorMessage"), by |-> "safeHandler", ok |-> FALSE]

=============================================================================
